---- MODULE Spec2Model ----
(***************************************************************************)
(* Rose Glass CRM: the trial engine (src/src/trial/trial_manager.py), the  *)
(* perception lens (src/src/core/rose_glass_lens.py) and the lead          *)
(* qualifier (src/src/pipeline/qualifier.py).                              *)
(*                                                                         *)
(* Numbers the code holds as floats (rates, fitness, confidence, dimension *)
(* scores) are exact rationals <<n, d>> in lowest terms with d > 0; money  *)
(* is whole dollars.                                                       *)
(* The files <trial_id>.json and results/<trial_id>_result.json are        *)
(* written and never read back by any operation, and are left out, as are  *)
(* the wall-clock stamps started_at, completed_at and evaluated_at and the *)
(* names, descriptions and rationale texts, which no operation reads.      *)
(* current_standard.json is read back and is the variable                  *)
(* current_standard.                                                       *)
(* Of a reading the warning signals and the recommended actions are left   *)
(* out; of a qualification log entry the rounded scores are left out.      *)
(***************************************************************************)
EXTENDS Integers, Sequences, FiniteSets, TLC

VARIABLES
    trials,             \* TrialManager.trials: the list of Trial objects
    standards_history,  \* TrialManager.standards_history
    current_standard,   \* content of <storage_dir>/current_standard.json
    ret,                \* the last call: operation, trial acted on (or argument), value
                        \* returned (or raised)
    recorded_exp,       \* history: trials for which evaluate_trial recorded 'experimental'
    lens_name,          \* LeadQualifier.lens_name = RoseGlassCRMLens.lens_name
    lead,               \* the LeadData record at hand
    stats,              \* LeadQualifier.stats
    qualification_log,  \* LeadQualifier.qualification_log
    threads,            \* concurrent callers: each one's position in its call
    outcomes,           \* OutcomeRecorder.outcomes
    outcome_files,      \* the files <lead_id>_<outcome_type>.json of the recorder's storage
    nutrients,          \* GraveyardManager.nutrients
    nutrient_files,     \* the files of the graveyard's nutrients directory
    graveyard_leads,    \* GraveyardManager.graveyard_leads: the outcome dictionaries buried
    graveyard_files,    \* the files <lead_id>_<outcome_type>.json of the graveyard's storage
    patterns,           \* GraveyardManager.patterns
    breaker,            \* a CircuitBreaker object
    clock,              \* time.time(), in seconds
    retry               \* a call of a function wrapped by on_exception: its position

trial_vars == <<trials, standards_history, current_standard, recorded_exp>>
qualifier_vars == <<lens_name, lead, stats, qualification_log>>
ledger_vars == <<outcomes, outcome_files, nutrients, nutrient_files>>
graveyard_vars == <<graveyard_leads, graveyard_files, patterns>>
resilience_vars == <<breaker, clock, retry>>
vars == <<trials, standards_history, current_standard, ret, recorded_exp,
          lens_name, lead, stats, qualification_log, threads,
          outcomes, outcome_files, nutrients, nutrient_files,
          graveyard_leads, graveyard_files, patterns, breaker, clock, retry>>

----------------------------------------------------------------------------
(* Bounds of the model *)

MaxTrials == 2      \* create_trial calls
MaxSecond == 1      \* the clock create_trial reads shows seconds 0..MaxSecond
MaxLeads == 2       \* record_qualification calls, over all trials
MaxOutcomes == 1    \* record_outcome calls, over all trials
MaxHistory == 2     \* promotions
MaxSample == 1      \* create_trial's min_sample_size is in 1..MaxSample
MaxEvalSample == 2  \* min_sample_size of the trial InitEval draws
MaxEvalLeads == 3   \* leads per branch of the trial InitEval draws
MaxEvalOutcomes == 2 \* outcomes per branch of the trial InitEval draws
MaxLog == 3         \* entries of the qualification log
MaxBatch == 2       \* records of one qualify_batch call
RawScale == 10      \* raw urgency inputs are the multiples of 1/RawScale in [-1, 4]
MaxThreads == 2     \* concurrent callers
MaxStored == 2      \* outcomes, and nutrients, a recorder or graveyard holds
MaxBuried == 4      \* calls of bury_lead
MaxClock == 5       \* seconds that pass
MaxThreshold == 3   \* failure_threshold of a CircuitBreaker
MaxTries == 3       \* max_tries of on_exception

----------------------------------------------------------------------------
(* Exact rationals *)

RECURSIVE GCD(_, _)
GCD(a, b) == IF b = 0 THEN a ELSE GCD(b, a % b)

Abs(x) == IF x < 0 THEN -x ELSE x

\* n/d in lowest terms with a positive denominator (d # 0)
R(n, d) ==
    LET g == GCD(Abs(n), Abs(d))
        s == IF d < 0 THEN -1 ELSE 1
    IN  <<(s * n) \div g, (s * d) \div g>>

RZero == <<0, 1>>
ROne == <<1, 1>>
RAdd(a, b) == R(a[1] * b[2] + b[1] * a[2], a[2] * b[2])
RSub(a, b) == R(a[1] * b[2] - b[1] * a[2], a[2] * b[2])
RMul(a, b) == R(a[1] * b[1], a[2] * b[2])
RDiv(a, b) == R(a[1] * b[2], a[2] * b[1])
\* a < b, cross-multiplied over the least common denominator
RLess(a, b) ==
    LET g == GCD(a[2], b[2])
    IN  a[1] * (b[2] \div g) < b[1] * (a[2] \div g)
RMin(a, b) == IF RLess(b, a) THEN b ELSE a
RAbs(a) == <<Abs(a[1]), a[2]>>

----------------------------------------------------------------------------
(* Values *)

None == "None"
NoConfidence == <<>>     \* Trial.confidence = None

PLANNED == "planned"
RUNNING == "running"
PAUSED == "paused"
COMPLETED == "completed"
PROMOTED == "promoted"
ARCHIVED == "archived"
TrialStatus == {PLANNED, RUNNING, PAUSED, COMPLETED, PROMOTED, ARCHIVED}

\* Configuration payloads (JSON objects; weights in percent)
DefaultStandard ==
    [lens |-> "enterprise_saas",
     weights |-> [psi_intent |-> 25, rho_authority |-> 30, q_urgency |-> 25, f_fit |-> 20],
     approach |-> "classic_rose_glass"]

AuthorityWeighted ==
    [lens |-> "enterprise_saas",
     weights |-> [psi_intent |-> 20, rho_authority |-> 40, q_urgency |-> 20, f_fit |-> 20],
     approach |-> "authority_weighted"]

UrgencyWeighted ==
    [lens |-> "enterprise_saas",
     weights |-> [psi_intent |-> 20, rho_authority |-> 20, q_urgency |-> 40, f_fit |-> 20],
     approach |-> "urgency_weighted"]

\* Inputs of the operations
ExperimentalConfigs == {AuthorityWeighted, UrgencyWeighted}
Seconds == 0..MaxSecond
TrafficSplits == {50}                 \* percent; 0.5 is the default
MinSampleSizes == 1..MaxSample
BranchArgs == {"classic", "experimental"}
TierArgs == {"hot", "disqualified"}        \* a tier that counts as qualified, and disqualified
OutcomeArgs == {"won", "lost"}
DealValues == {50000}
Costs == {0}                          \* the default cost
Draws == {25, 75}                     \* random.random(), in percent

NoFile == <<>>                        \* current_standard.json does not exist
File(config) == <<config>>            \* its content, a JSON object

----------------------------------------------------------------------------
(* TrialBranch *)

TrialBranch(name, config) ==
    [name |-> name, config |-> config,
     leads_qualified |-> 0, leads_hot |-> 0, leads_warm |-> 0, leads_cold |-> 0,
     leads_disqualified |-> 0,
     outcomes_won |-> 0, outcomes_lost |-> 0, total_revenue |-> 0, total_cost |-> 0]

qualification_rate(b) ==
    IF b.leads_qualified = 0 THEN RZero
    ELSE R(b.leads_qualified - b.leads_disqualified, b.leads_qualified)

conversion_rate(b) ==
    IF b.outcomes_won + b.outcomes_lost = 0 THEN RZero
    ELSE R(b.outcomes_won, b.outcomes_won + b.outcomes_lost)

avg_deal_value(b) ==
    IF b.outcomes_won = 0 THEN RZero ELSE R(b.total_revenue, b.outcomes_won)

RevenueCap == 100000

fitness_score(b) ==
    LET revenue_weight == RMin(RDiv(avg_deal_value(b), <<RevenueCap, 1>>), ROne)
    IN  RAdd(RAdd(RMul(qualification_rate(b), R(3, 10)),
                  RMul(conversion_rate(b), R(5, 10))),
             RMul(revenue_weight, R(2, 10)))

----------------------------------------------------------------------------
(* Trial *)

Trial(trial_id, classic_branch, experimental_branch, traffic_split, min_sample_size) ==
    [trial_id |-> trial_id,
     classic_branch |-> classic_branch,
     experimental_branch |-> experimental_branch,
     traffic_split |-> traffic_split,
     min_sample_size |-> min_sample_size,
     status |-> PLANNED,
     winner |-> None,
     confidence |-> NoConfidence]

\* A gate that one branch alone can pass
is_ready_either(t) ==
    \/ t.classic_branch.leads_qualified >= t.min_sample_size
    \/ t.experimental_branch.leads_qualified >= t.min_sample_size

is_ready_for_evaluation(t) ==
    /\ t.classic_branch.leads_qualified >= t.min_sample_size
    /\ t.experimental_branch.leads_qualified >= t.min_sample_size

\* An assignment that keeps drawing while the trial is paused
assign_branch_while_paused(t, r) ==
    IF t.status \notin {RUNNING, PAUSED} THEN "classic"
    ELSE IF r < t.traffic_split THEN "experimental" ELSE "classic"

\* Trial.assign_branch with the draw r of random.random()
assign_branch_value(t, r) ==
    IF t.status # RUNNING THEN "classic"
    ELSE IF r < t.traffic_split THEN "experimental" ELSE "classic"

----------------------------------------------------------------------------
(* Values the operations return *)

RetNone == [kind |-> "None"]
RetTrial == [kind |-> "Trial"]
RetStr(v) == [kind |-> "str", value |-> v]
RetRaise(e) == [kind |-> "raise", error |-> e]

\* The last call: the operation, the trial it acted on (its place in the
\* list; 0: none) and what it returned
Call(op, idx, val) == [op |-> op, idx |-> idx, val |-> val]

----------------------------------------------------------------------------
(* TrialManager: helpers *)

\* The first trial of the list with this id (0: none)
_get_trial(trial_id) ==
    LET hits == {i \in 1..Len(trials) : trials[i].trial_id = trial_id}
    IN  IF hits = {} THEN 0 ELSE CHOOSE i \in hits : \A j \in hits : i <= j

\* 'classic' in branch_name.lower()
ContainsClassic(branch_name) == branch_name \in {"classic"}

_get_branch(branch_name) ==
    IF ContainsClassic(branch_name) THEN "classic_branch" ELSE "experimental_branch"

\* A standard that ignores current_standard.json
_get_default_standard == DefaultStandard

_get_current_standard ==
    IF current_standard # NoFile THEN current_standard[1] ELSE DefaultStandard

\* A confidence whose sample part is not capped at 1.0
_calculate_confidence_uncapped(t) ==
    LET classic_n == t.classic_branch.leads_qualified
        exp_n == t.experimental_branch.leads_qualified
        sample_confidence == R(classic_n + exp_n, t.min_sample_size * 4)
        fitness_diff == RAbs(RSub(fitness_score(t.classic_branch),
                                  fitness_score(t.experimental_branch)))
        difference_confidence == RMin(RDiv(fitness_diff, R(2, 10)), ROne)
    IN  RDiv(RAdd(sample_confidence, difference_confidence), <<2, 1>>)

\* A confidence that is full at a fitness gap of 0.1
_calculate_confidence_gap10(t) ==
    LET classic_n == t.classic_branch.leads_qualified
        exp_n == t.experimental_branch.leads_qualified
        sample_confidence == RMin(R(classic_n + exp_n, t.min_sample_size * 4), ROne)
        fitness_diff == RAbs(RSub(fitness_score(t.classic_branch),
                                  fitness_score(t.experimental_branch)))
        difference_confidence == RMin(RDiv(fitness_diff, R(1, 10)), ROne)
    IN  RDiv(RAdd(sample_confidence, difference_confidence), <<2, 1>>)

_calculate_confidence(t) ==
    LET classic_n == t.classic_branch.leads_qualified
        exp_n == t.experimental_branch.leads_qualified
        sample_confidence == RMin(R(classic_n + exp_n, t.min_sample_size * 4), ROne)
        fitness_diff == RAbs(RSub(fitness_score(t.classic_branch),
                                  fitness_score(t.experimental_branch)))
        difference_confidence == RMin(RDiv(fitness_diff, R(2, 10)), ROne)
    IN  RDiv(RAdd(sample_confidence, difference_confidence), <<2, 1>>)

TrialResult(winner, confidence, cf, ef, improvement, recommendation) ==
    [kind |-> "TrialResult", winner |-> winner, confidence |-> confidence,
     classic_fitness |-> cf, experimental_fitness |-> ef,
     improvement |-> improvement, recommendation |-> recommendation]

\* The winner evaluate_trial determines from the two fitness scores
Winner(cf, ef) ==
    IF RLess(RMul(cf, R(105, 100)), ef) THEN "experimental"
    ELSE IF RLess(RMul(ef, R(105, 100)), cf) THEN "classic"
    ELSE "inconclusive"

\* A recommendation that promotes every experimental winner
Recommendation_any_confidence(winner, confidence) ==
    IF winner = "experimental" THEN "promote"
    ELSE IF winner = "classic" THEN "archive"
    ELSE "continue"

\* The recommendation evaluate_trial attaches to a winner
Recommendation(winner, confidence) ==
    IF winner = "experimental"
    THEN (IF RLess(R(95, 100), confidence) THEN "promote" ELSE "continue")
    ELSE IF winner = "classic" THEN "archive"
    ELSE "continue"

\* The percentage improvement of the winner over the loser (the loser's
\* fitness is not 0)
Improvement(winner, cf, ef) ==
    IF winner = "experimental" THEN RMul(RDiv(RSub(ef, cf), cf), <<100, 1>>)
    ELSE IF winner = "classic" THEN RMul(RDiv(RSub(cf, ef), ef), <<100, 1>>)
    ELSE RZero

\* What evaluate_trial returns for the trial t: None before the sample-size
\* gate, a ZeroDivisionError where the improvement divides by a fitness of 0,
\* the TrialResult otherwise.
Evaluation(t) ==
    LET cf == fitness_score(t.classic_branch)
        ef == fitness_score(t.experimental_branch)
        winner == Winner(cf, ef)
        confidence == IF winner = "inconclusive" THEN RZero ELSE _calculate_confidence(t)
    IN  IF ~is_ready_for_evaluation(t) THEN RetNone
        ELSE IF \/ winner = "experimental" /\ cf = RZero
                \/ winner = "classic" /\ ef = RZero
        THEN RetRaise("ZeroDivisionError")
        ELSE TrialResult(winner, confidence, cf, ef, Improvement(winner, cf, ef),
                         Recommendation(winner, confidence))

RECURSIVE SumOver(_, _)
SumOver(f, n) == IF n = 0 THEN 0 ELSE f[n] + SumOver(f, n - 1)

LeadsRecorded ==
    SumOver([i \in 1..Len(trials) |->
                trials[i].classic_branch.leads_qualified
                + trials[i].experimental_branch.leads_qualified], Len(trials))

OutcomesRecorded ==
    SumOver([i \in 1..Len(trials) |->
                trials[i].classic_branch.outcomes_won + trials[i].classic_branch.outcomes_lost
                + trials[i].experimental_branch.outcomes_won
                + trials[i].experimental_branch.outcomes_lost], Len(trials))

----------------------------------------------------------------------------
(* Trial methods, on the trial object trials[i] *)

start(i) ==
    /\ i \in 1..Len(trials)
    /\ trials' = [trials EXCEPT ![i].status = RUNNING]
    /\ ret' = Call("start", i, RetNone)
    /\ UNCHANGED <<standards_history, current_standard, recorded_exp>>
    /\ UNCHANGED <<qualifier_vars, threads, ledger_vars, graveyard_vars, resilience_vars>>

pause(i) ==
    /\ i \in 1..Len(trials)
    /\ trials' = [trials EXCEPT ![i].status = PAUSED]
    /\ ret' = Call("pause", i, RetNone)
    /\ UNCHANGED <<standards_history, current_standard, recorded_exp>>
    /\ UNCHANGED <<qualifier_vars, threads, ledger_vars, graveyard_vars, resilience_vars>>

resume(i) ==
    /\ i \in 1..Len(trials)
    /\ trials' = [trials EXCEPT ![i].status = RUNNING]
    /\ ret' = Call("resume", i, RetNone)
    /\ UNCHANGED <<standards_history, current_standard, recorded_exp>>
    /\ UNCHANGED <<qualifier_vars, threads, ledger_vars, graveyard_vars, resilience_vars>>

assign_branch(i, r) ==
    /\ i \in 1..Len(trials)
    /\ ret' = Call("assign_branch", i, RetStr(assign_branch_value(trials[i], r)))
    /\ UNCHANGED <<trials, standards_history, current_standard, recorded_exp>>
    /\ UNCHANGED <<qualifier_vars, threads, ledger_vars, graveyard_vars, resilience_vars>>

----------------------------------------------------------------------------
(* TrialManager operations *)

\* now: the second datetime.now() shows, counted from the first call's; the
\* clock does not run backwards
create_trial(now, experimental_config, traffic_split, min_sample_size) ==
    /\ Len(trials) < MaxTrials
    /\ IF trials = <<>> THEN now = 0 ELSE trials[Len(trials)].trial_id <= now
    /\ LET classic_branch == TrialBranch("classic", _get_current_standard)
           experimental_branch == TrialBranch(<<"experimental", now>>, experimental_config)
       IN  trials' = Append(trials, Trial(now, classic_branch, experimental_branch,
                                           traffic_split, min_sample_size))
    /\ ret' = Call("create_trial", Len(trials) + 1, RetTrial)
    /\ UNCHANGED <<standards_history, current_standard, recorded_exp>>
    /\ UNCHANGED <<qualifier_vars, threads, ledger_vars, graveyard_vars, resilience_vars>>

\* The branch after record_qualification's increments
Qualified(b, tier) ==
    LET q == [b EXCEPT !.leads_qualified = @ + 1]
    IN  IF tier = "hot" THEN [q EXCEPT !.leads_hot = @ + 1]
        ELSE IF tier = "warm" THEN [q EXCEPT !.leads_warm = @ + 1]
        ELSE IF tier = "cold" THEN [q EXCEPT !.leads_cold = @ + 1]
        ELSE IF tier = "disqualified" THEN [q EXCEPT !.leads_disqualified = @ + 1]
        ELSE q

record_qualification(trial_id, branch, tier) ==
    LET i == _get_trial(trial_id) IN
    /\ LeadsRecorded < MaxLeads
    /\ IF i = 0 THEN UNCHANGED trials
       ELSE trials' = [trials EXCEPT ![i][_get_branch(branch)] = Qualified(@, tier)]
    /\ ret' = Call("record_qualification", i, RetNone)
    /\ UNCHANGED <<standards_history, current_standard, recorded_exp>>
    /\ UNCHANGED <<qualifier_vars, threads, ledger_vars, graveyard_vars, resilience_vars>>

\* The branch after record_outcome's updates
WithOutcome(b, outcome_type, deal_value, cost) ==
    LET o == IF outcome_type = "won"
             THEN [b EXCEPT !.outcomes_won = @ + 1, !.total_revenue = @ + deal_value]
             ELSE [b EXCEPT !.outcomes_lost = @ + 1]
    IN  [o EXCEPT !.total_cost = @ + cost]

record_outcome(trial_id, branch, outcome_type, deal_value, cost) ==
    LET i == _get_trial(trial_id) IN
    /\ OutcomesRecorded < MaxOutcomes
    /\ IF i = 0 THEN UNCHANGED trials
       ELSE trials' = [trials EXCEPT ![i][_get_branch(branch)] =
                            WithOutcome(@, outcome_type, deal_value, cost)]
    /\ ret' = Call("record_outcome", i, RetNone)
    /\ UNCHANGED <<standards_history, current_standard, recorded_exp>>
    /\ UNCHANGED <<qualifier_vars, threads, ledger_vars, graveyard_vars, resilience_vars>>

evaluate_trial(trial_id) ==
    LET i == _get_trial(trial_id) IN
    \E result \in {IF i = 0 THEN RetNone ELSE Evaluation(trials[i])} :
        /\ IF result.kind = "TrialResult"
           THEN /\ trials' = [trials EXCEPT ![i].winner = result.winner,
                                            ![i].confidence = result.confidence]
                /\ recorded_exp' = IF result.winner = "experimental"
                                   THEN recorded_exp \cup {i} ELSE recorded_exp
           ELSE UNCHANGED <<trials, recorded_exp>>
        /\ ret' = Call("evaluate_trial", i, result)
        /\ UNCHANGED <<standards_history, current_standard>>
        /\ UNCHANGED <<qualifier_vars, threads, ledger_vars, graveyard_vars, resilience_vars>>

\* A guard that lets every evaluated trial through
MayPromote_evaluated(t) == t.winner # None

\* A guard that stops only a classic win
MayPromote_not_classic(t) == t.winner # "classic"

\* promote_experimental's guard: the recorded winner
MayPromote(t) == t.winner = "experimental"

promote_experimental(trial_id) ==
    LET i == _get_trial(trial_id) IN
    /\ Len(standards_history) < MaxHistory
    /\ IF i # 0 /\ MayPromote(trials[i])
       THEN /\ standards_history' = Append(standards_history,
                    [config |-> _get_current_standard,
                     replaced_by |-> trials[i].experimental_branch.name,
                     trial_id |-> trial_id])
            /\ current_standard' = File(trials[i].experimental_branch.config)
            /\ trials' = [trials EXCEPT ![i].status = PROMOTED]
       ELSE UNCHANGED <<trials, standards_history, current_standard>>
    /\ ret' = Call("promote_experimental", i, RetNone)
    /\ UNCHANGED recorded_exp
    /\ UNCHANGED <<qualifier_vars, threads, ledger_vars, graveyard_vars, resilience_vars>>

archive_trial(trial_id) ==
    LET i == _get_trial(trial_id) IN
    /\ IF i = 0 THEN UNCHANGED trials
       ELSE trials' = [trials EXCEPT ![i].status = ARCHIVED]
    /\ ret' = Call("archive_trial", i, RetNone)
    /\ UNCHANGED <<standards_history, current_standard, recorded_exp>>
    /\ UNCHANGED <<qualifier_vars, threads, ledger_vars, graveyard_vars, resilience_vars>>

----------------------------------------------------------------------------
(* The perception lens (src/src/core/rose_glass_lens.py)                   *)

True == "True"
False == "False"

P(n) == R(n, 100)    \* n hundredths

\* LeadData with every optional field at its default.  Texts are phrases:
\* a pain point, the notes and the use case are one phrase each, and a
\* phrase contains an urgency marker when it is that marker.  Titles and
\* industries are single lower-case words, so that "keyword in text" is
\* equality.
LeadData(lead_id) ==
    [lead_id |-> lead_id, contact_name |-> None, contact_title |-> None,
     industry |-> None, company_size |-> None, tech_stack |-> <<>>,
     source |-> "unknown", pain_points |-> <<>>,
     is_decision_maker |-> None, budget_mentioned |-> None, timeline_mentioned |-> None,
     competitor_mentioned |-> <<>>, use_case |-> None,
     website_visits |-> 0, content_downloads |-> <<>>, meeting_requests |-> 0,
     notes |-> ""]

SeqRange(s) == {s[k] : k \in 1..Len(s)}

get_text_for_analysis(l) ==
    ((IF l.notes # "" THEN {l.notes} ELSE {}) \cup SeqRange(l.pain_points)
        \cup (IF l.use_case # None THEN {l.use_case} ELSE {})) \ {""}

KM == R(2, 10)
KI == R(8, 10)

DEFAULT_WEIGHTS ==
    [psi_intent |-> P(25), rho_authority |-> P(30), q_urgency |-> P(25), f_fit |-> P(20)]

CalibratedLenses == {"enterprise_saas", "smb_tech", "federal_gov", "healthcare"}

LENS_CALIBRATIONS ==
    [n \in CalibratedLenses |->
        CASE n = "enterprise_saas" ->
               [weights |-> [psi_intent |-> P(20), rho_authority |-> P(35),
                             q_urgency |-> P(20), f_fit |-> P(25)],
                authority_threshold |-> P(60)]
          [] n = "smb_tech" ->
               [weights |-> [psi_intent |-> P(30), rho_authority |-> P(20),
                             q_urgency |-> P(30), f_fit |-> P(20)],
                authority_threshold |-> P(40)]
          [] n = "federal_gov" ->
               [weights |-> [psi_intent |-> P(25), rho_authority |-> P(25),
                             q_urgency |-> P(15), f_fit |-> P(35)],
                authority_threshold |-> P(50)]
          [] n = "healthcare" ->
               [weights |-> [psi_intent |-> P(20), rho_authority |-> P(30),
                             q_urgency |-> P(20), f_fit |-> P(30)],
                authority_threshold |-> P(55)]]

\* self.weights and the authority threshold of the lens in use; an
\* unrecognized lens name has the empty calibration
weights ==
    IF lens_name \in CalibratedLenses THEN LENS_CALIBRATIONS[lens_name].weights
    ELSE DEFAULT_WEIGHTS

DefaultAuthorityThreshold == P(50)

authority_threshold ==
    IF lens_name \in CalibratedLenses THEN LENS_CALIBRATIONS[lens_name].authority_threshold
    ELSE DefaultAuthorityThreshold

\* Michaelis-Menten saturation without the inhibition term
biological_optimization_no_inhibition(q_raw) ==
    IF ~RLess(RZero, q_raw) THEN RZero
    ELSE RDiv(q_raw, RAdd(KM, q_raw))

\* the raw urgency as it is, without the transform
biological_optimization_untransformed(q_raw) == q_raw

biological_optimization(q_raw) ==
    IF ~RLess(RZero, q_raw) THEN RZero
    ELSE RDiv(q_raw, RAdd(RAdd(KM, q_raw), RDiv(RMul(q_raw, q_raw), KI)))

source_weights(source) ==
    CASE source = "inbound" -> P(30)
      [] source = "referral" -> P(25)
      [] source = "event" -> P(20)
      [] source = "content" -> P(15)
      [] source = "outbound" -> P(10)
      [] OTHER -> P(5)

_extract_psi_intent(l) ==
    LET s1 == source_weights(l.source)
        s2 == IF l.pain_points # <<>>
              THEN RAdd(s1, RMin(P(10 * Len(l.pain_points)), P(30))) ELSE s1
        s3 == IF l.use_case # None /\ l.use_case # "" THEN RAdd(s2, P(20)) ELSE s2
        s4 == IF l.meeting_requests > 0 THEN RAdd(s3, P(15)) ELSE s3
        s5 == IF l.content_downloads # <<>>
              THEN RAdd(s4, RMin(P(5 * Len(l.content_downloads)), P(15))) ELSE s4
    IN  RMin(s5, ROne)

authority_titles == {"ceo", "cto", "cfo", "coo", "vp", "director", "head of", "chief"}

size_weights(company_size) ==
    CASE company_size = "enterprise" -> P(15)
      [] company_size = "mid-market" -> P(20)
      [] company_size = "smb" -> P(15)
      [] company_size = "startup" -> P(10)
      [] OTHER -> P(10)

_extract_rho_authority(l) ==
    LET s1 == IF l.is_decision_maker = True THEN P(35)
              ELSE IF l.is_decision_maker = None THEN P(15) ELSE RZero
        s2 == IF l.contact_title # None /\ l.contact_title \in authority_titles
              THEN RAdd(s1, P(25)) ELSE s1
        s3 == IF l.budget_mentioned = True THEN RAdd(s2, P(20)) ELSE s2
        s4 == RAdd(s3, size_weights(l.company_size))
    IN  RMin(s4, ROne)

timeline_weights(timeline) ==
    CASE timeline = "immediate" -> P(40)
      [] timeline = "this_quarter" -> P(30)
      [] timeline = "next_quarter" -> P(20)
      [] timeline = "this_year" -> P(10)
      [] OTHER -> P(10)

urgency_markers ==
    {"urgent", "asap", "immediately", "critical", "deadline",
     "struggling", "failing", "breaking", "desperate", "need now"}

_extract_q_urgency(l) ==
    LET s1 == IF l.timeline_mentioned # None THEN timeline_weights(l.timeline_mentioned)
              ELSE RZero
        urgency_count == Cardinality(urgency_markers \cap get_text_for_analysis(l))
        s2 == RAdd(s1, RMin(P(10 * urgency_count), P(30)))
        s3 == IF l.meeting_requests > 1 THEN RAdd(s2, P(15)) ELSE s2
        s4 == IF l.website_visits > 5 THEN RAdd(s3, P(10)) ELSE s3
    IN  RMin(s4, ROne)

target_industries == {"technology", "saas", "software", "fintech", "healthcare tech"}

_extract_f_fit(l) ==
    LET s1 == IF l.industry # None /\ l.industry \in target_industries THEN P(25) ELSE RZero
        s2 == IF l.tech_stack # <<>>
              THEN RAdd(s1, RMin(P(5 * Len(l.tech_stack)), P(20))) ELSE s1
        s3 == IF l.company_size \in {"mid-market", "enterprise"} THEN RAdd(s2, P(20))
              ELSE IF l.company_size = "smb" THEN RAdd(s2, P(15)) ELSE s2
        s4 == IF l.competitor_mentioned = <<>> THEN RAdd(s3, P(15)) ELSE RAdd(s3, P(10))
        s5 == IF l.source = "referral" THEN RAdd(s4, P(15)) ELSE s4
    IN  RMin(s5, ROne)

\* twice the coupling
coupling_strength_doubled == P(30)

coupling_strength == P(15)

\* the weighted sum without the ceiling of 4.0
_calculate_coherence_unclamped(psi, rho, q, f) ==
    RMul(RAdd(RAdd(RAdd(RAdd(RMul(weights.psi_intent, psi),
                             RMul(weights.rho_authority, rho)),
                        RMul(weights.q_urgency, q)),
                   RMul(weights.f_fit, f)),
              RMul(RMul(coupling_strength, rho), psi)),
         R(4, 1))

_calculate_coherence(psi, rho, q, f) ==
    LET coupling == RMul(RMul(coupling_strength, rho), psi)
        sum == RAdd(RAdd(RAdd(RAdd(RMul(weights.psi_intent, psi),
                                   RMul(weights.rho_authority, rho)),
                              RMul(weights.q_urgency, q)),
                         RMul(weights.f_fit, f)),
                    coupling)
    IN  RMin(RMul(sum, R(4, 1)), R(4, 1))

RGeq(a, b) == ~RLess(a, b)

FitFloor == P(20)
AuthorityFloor == P(15)

\* the same rules in another order: the hot test before the floors
_determine_tier_hot_first(coherence, psi, rho, q, f) ==
    IF RGeq(coherence, R(5, 2)) /\ RGeq(rho, authority_threshold) /\ RGeq(q, P(30)) THEN "hot"
    ELSE IF RLess(f, FitFloor) THEN "disqualified"
    ELSE IF RLess(rho, AuthorityFloor) THEN "disqualified"
    ELSE IF RGeq(coherence, R(3, 2)) THEN "warm"
    ELSE "cold"

_determine_tier(coherence, psi, rho, q, f) ==
    IF RLess(f, FitFloor) THEN "disqualified"
    ELSE IF RLess(rho, AuthorityFloor) THEN "disqualified"
    ELSE IF RGeq(coherence, R(5, 2)) /\ RGeq(rho, authority_threshold) /\ RGeq(q, P(30)) THEN "hot"
    ELSE IF RGeq(coherence, R(3, 2)) THEN "warm"
    ELSE "cold"

Opt(cond, signal) == IF cond THEN <<signal>> ELSE <<>>

\* The transform's exact maximum is q(0.4) = 1/2, which binary floating
\* point evaluates to 0.49999999999999994: the test q >= 0.5 of line 353
\* holds for no raw urgency, and is the exact test q > 1/2.
UrgencyExpressed(q) == RLess(R(1, 2), q)

positive_signals(l, psi, rho, q, f) ==
    Opt(RGeq(psi, P(60)), "Strong intent signals")
        \o Opt(RGeq(rho, P(60)), "Decision-making authority")
        \o Opt(UrgencyExpressed(q), "Urgency expressed")
        \o Opt(RGeq(f, P(60)), "Strong ICP fit")
        \o Opt(l.source = "referral", "Referral lead (ecosystem validated)")
        \o Opt(l.budget_mentioned = True, "Budget discussed")

disqualifiers(l, psi, rho, q, f) ==
    Opt(RLess(f, FitFloor), "Poor ICP fit")
        \o Opt(RLess(rho, AuthorityFloor) /\ l.company_size = "enterprise",
               "Too junior for enterprise deal")

\* ", ".join(names)
RECURSIVE JoinComma(_)
JoinComma(names) ==
    IF names = <<>> THEN ""
    ELSE IF Len(names) = 1 THEN names[1]
    ELSE names[1] \o ", " \o JoinComma(Tail(names))

HighUrgency == P(70)

warning_signals(l, psi, rho, q, f) ==
    Opt(RLess(rho, P(40)) /\ RLess(P(50), psi), "Intent without authority - may need champion")
        \o Opt(RLess(HighUrgency, q) /\ RLess(rho, P(40)),
               "High urgency + low authority - may be researcher")
        \o Opt(l.competitor_mentioned # <<>>,
               "Currently using: " \o JoinComma(l.competitor_mentioned))
        \o Opt(RLess(psi, P(30)), "Unclear intent - needs discovery")

AcceleratedUrgency == P(60)

_recommend_actions(tier, l, psi, rho, q, f) ==
    CASE tier = "disqualified" -> <<"Archive - does not meet qualification criteria">>
      [] tier = "hot" ->
            <<"Schedule demo/meeting ASAP">>
                \o Opt(l.budget_mentioned # True, "Confirm budget in first call")
                \o Opt(RGeq(q, AcceleratedUrgency), "Offer accelerated timeline")
      [] tier = "warm" ->
            Opt(RLess(psi, P(50)), "Discovery call to understand needs")
                \o Opt(RLess(rho, P(50)), "Identify decision-maker / champion")
                \o Opt(RLess(q, P(30)), "Create urgency - share ROI data")
                \o <<"Add to nurture sequence">>
      [] tier = "cold" ->
            <<"Add to long-term nurture">>
                \o Opt(RLess(psi, P(30)), "Send educational content")
                \o <<"Re-evaluate in 30 days">>
      [] OTHER -> <<>>

max_points == 10

\* RoseGlassCRMLens._calculate_confidence: completeness of the lead's data
_calculate_confidence_of_lead(l) ==
    LET Pt(cond, n) == IF cond THEN n ELSE 0
        data_points ==
            Pt(l.contact_name # None /\ l.contact_name # "", 1)
            + Pt(l.contact_title # None /\ l.contact_title # "", 1)
            + Pt(l.industry # None /\ l.industry # "", 1)
            + Pt(l.company_size # None /\ l.company_size # "", 1)
            + Pt(l.pain_points # <<>>, 1)
            + Pt(l.is_decision_maker # None, 1)
            + Pt(l.budget_mentioned # None, 1)
            + Pt(l.timeline_mentioned # None /\ l.timeline_mentioned # "", 1)
            + Pt(get_text_for_analysis(l) # {}, 2)
    IN  R(data_points, max_points)

LeadCoherence(psi, rho, q, f, coherence, tier, confidence, positive, warning, disq, actions) ==
    [kind |-> "LeadCoherence", psi_intent |-> psi, rho_authority |-> rho, q_urgency |-> q,
     f_fit |-> f, coherence_score |-> coherence, qualification_tier |-> tier,
     lens_used |-> lens_name, confidence |-> confidence,
     positive_signals |-> positive, warning_signals |-> warning, disqualifiers |-> disq,
     next_actions |-> actions]

\* meeting_requests is compared with 0 (line 224): a record that holds None
\* there makes perceive raise TypeError.  None in this integer field is
\* written NoneInt; no record of the model holds a negative count.
NoneInt == -1

WellFormed(l) == l.meeting_requests # NoneInt

\* perceive from the signals on: the signals, the actions and the confidence
\* of the four dimensions, their coherence and their tier
Tiered(l, psi, rho, q, f, coherence, tier) ==
    LeadCoherence(psi, rho, q, f, coherence, tier,
                  _calculate_confidence_of_lead(l),
                  positive_signals(l, psi, rho, q, f),
                  warning_signals(l, psi, rho, q, f),
                  disqualifiers(l, psi, rho, q, f),
                  _recommend_actions(tier, l, psi, rho, q, f))

\* perceive from the tier on: the tier of the four dimensions and their
\* coherence
Scored(l, psi, rho, q, f, coherence) ==
    Tiered(l, psi, rho, q, f, coherence, _determine_tier(coherence, psi, rho, q, f))

\* perceive from the coherence on: the coherence of the four dimensions
Perceived(l, psi, rho, q, f) ==
    Scored(l, psi, rho, q, f, _calculate_coherence(psi, rho, q, f))

\* RoseGlassCRMLens.perceive
Reading(l) ==
    IF ~WellFormed(l) THEN RetRaise("TypeError")
    ELSE Perceived(l, _extract_psi_intent(l), _extract_rho_authority(l),
                   biological_optimization(_extract_q_urgency(l)), _extract_f_fit(l))

RetFloat(q_raw, value) == [kind |-> "float", q_raw |-> q_raw, value |-> value]

\* a call of biological_optimization on its own
call_biological_optimization(q_raw) ==
    /\ ret' = Call("biological_optimization", 0,
                   RetFloat(q_raw, biological_optimization(q_raw)))
    /\ UNCHANGED <<trial_vars, qualifier_vars, threads, ledger_vars, graveyard_vars, resilience_vars>>

NoLead == <<>>

perceive ==
    /\ lead # NoLead
    /\ ret' = Call("perceive", 0, Reading(lead[1]))
    /\ UNCHANGED <<trial_vars, qualifier_vars, threads, ledger_vars, graveyard_vars, resilience_vars>>

----------------------------------------------------------------------------
(* The lead qualifier (src/src/pipeline/qualifier.py)                      *)

NoStats == [total_qualified |-> 0, hot |-> 0, warm |-> 0, cold |-> 0, disqualified |-> 0]

\* routing by the qualified flag alone
_determine_routing_by_qualified(coherence) ==
    IF coherence.qualification_tier # "disqualified" THEN "active_sales" ELSE "graveyard"

_determine_routing(coherence) ==
    LET tier == coherence.qualification_tier IN
    IF tier = "hot" THEN "active_sales"
    ELSE IF tier = "warm" THEN "nurture_warm"
    ELSE IF tier = "cold" THEN "nurture_cold"
    ELSE "graveyard"

base_priority(tier) ==
    CASE tier = "hot" -> ROne
      [] tier = "warm" -> P(60)
      [] tier = "cold" -> P(30)
      [] OTHER -> RZero

\* the boosts without their weights 0.2 and 0.15
_calculate_priority_unweighted(coherence) ==
    RMin(ROne, RAdd(RAdd(base_priority(coherence.qualification_tier), coherence.q_urgency),
                    coherence.rho_authority))

_calculate_priority(coherence) ==
    LET urgency_boost == RMul(coherence.q_urgency, P(20))
        authority_boost == RMul(coherence.rho_authority, P(15))
    IN  RMin(ROne, RAdd(RAdd(base_priority(coherence.qualification_tier), urgency_boost),
                        authority_boost))

QualificationResult(l, coherence) ==
    [kind |-> "QualificationResult", lead_id |-> l.lead_id, coherence |-> coherence,
     qualification_tier |-> coherence.qualification_tier,
     qualified |-> coherence.qualification_tier # "disqualified",
     next_stage |-> _determine_routing(coherence),
     priority_score |-> _calculate_priority(coherence),
     lens_used |-> lens_name]

\* QualificationResult.to_dict, without the rounded scores
to_dict(result) ==
    [lead_id |-> result.lead_id, qualification_tier |-> result.qualification_tier,
     qualified |-> result.qualified, next_stage |-> result.next_stage,
     lens_used |-> result.lens_used]

\* the total alone is counted
_update_stats_total_only(st, result) ==
    [st EXCEPT !.total_qualified = @ + 1]

_update_stats(st, result) ==
    [[st EXCEPT !.total_qualified = @ + 1] EXCEPT ![result.qualification_tier] = @ + 1]

Logged(st, log, result) ==
    [val |-> result, stats |-> _update_stats(st, result),
     log |-> Append(log, to_dict(result))]

\* qualify after the lens has perceived the lead
QualifiedReading(l, st, log, coherence) ==
    IF coherence.kind = "raise" THEN [val |-> coherence, stats |-> st, log |-> log]
    ELSE Logged(st, log, QualificationResult(l, coherence))

\* What one qualify call makes of the qualifier: the value returned (or the
\* exception raised, before any counter is touched), the stats and the log
Qualified1(l, st, log) == QualifiedReading(l, st, log, Reading(l))

qualify(l) ==
    /\ Len(qualification_log) < MaxLog
    /\ \E q \in {Qualified1(l, stats, qualification_log)} :
        /\ stats' = q.stats
        /\ qualification_log' = q.log
        /\ ret' = Call("qualify", l, q.val)
    /\ UNCHANGED <<trial_vars, lens_name, lead, threads, ledger_vars, graveyard_vars, resilience_vars>>

\* the loop of qualify_batch over leads[k..]: the results appended, the
\* stats and the log as the calls leave them
RECURSIVE BatchLoop(_, _, _)
\* one turn of the loop: a result is appended unless the call raised
BatchStep(leads, k, acc, q) ==
    BatchLoop(leads, k + 1,
              [results |-> IF q.val.kind = "raise" THEN acc.results
                           ELSE Append(acc.results, q.val),
               stats |-> q.stats, log |-> q.log])

BatchLoop(leads, k, acc) ==
    IF k > Len(leads) THEN acc
    ELSE BatchStep(leads, k, acc, Qualified1(leads[k], acc.stats, acc.log))

\* list.sort(key=priority_score, reverse=True): stable, so results of equal
\* priority keep their order
RECURSIVE InsertByPriority(_, _)
InsertByPriority(sorted, r) ==
    IF sorted = <<>> THEN <<r>>
    ELSE IF RLess(sorted[Len(sorted)].priority_score, r.priority_score)
         THEN Append(InsertByPriority(SubSeq(sorted, 1, Len(sorted) - 1), r),
                     sorted[Len(sorted)])
         ELSE Append(sorted, r)

RECURSIVE SortByPriority(_)
SortByPriority(results) ==
    IF results = <<>> THEN <<>>
    ELSE InsertByPriority(SortByPriority(SubSeq(results, 1, Len(results) - 1)),
                          results[Len(results)])

RetList(v) == [kind |-> "list", value |-> v]

\* The summary divides by len(leads) (lines 169-172): an empty batch raises
\* ZeroDivisionError after the loop and the sort
qualify_batch(leads) ==
    /\ Len(qualification_log) + Len(leads) <= MaxLog
    /\ \E b \in {BatchLoop(leads, 1, [results |-> <<>>, stats |-> stats,
                                      log |-> qualification_log])} :
        /\ stats' = b.stats
        /\ qualification_log' = b.log
        /\ ret' = Call("qualify_batch", leads,
                       IF Len(leads) = 0 THEN RetRaise("ZeroDivisionError")
                       ELSE RetList(SortByPriority(b.results)))
    /\ UNCHANGED <<trial_vars, lens_name, lead, threads, ledger_vars, graveyard_vars, resilience_vars>>

NoThreads == <<>>

\* no recorder and no graveyard are in use
NoLedger ==
    /\ outcomes = <<>>
    /\ outcome_files = {}
    /\ nutrients = <<>>
    /\ nutrient_files = {}

\* no outcome is buried
NoGraveyard ==
    /\ graveyard_leads = <<>>
    /\ graveyard_files = {}
    /\ patterns = <<>>

NoBreaker == <<>>
NoRetry == <<>>

\* no circuit breaker and no wrapped function are in use
NoResilience ==
    /\ breaker = NoBreaker
    /\ clock = 0
    /\ retry = NoRetry

\* no qualifier is in use
NoQualifier ==
    /\ lens_name = None
    /\ lead = NoLead
    /\ stats = NoStats
    /\ qualification_log = <<>>
    /\ threads = NoThreads

----------------------------------------------------------------------------
(* The manager after construction: no trials, no history, a fresh storage  *)
(* directory                                                               *)

Init ==
    /\ trials = <<>>
    /\ standards_history = <<>>
    /\ current_standard = NoFile
    /\ ret = Call("__init__", 0, RetNone)
    /\ recorded_exp = {}
    /\ NoQualifier
    /\ NoLedger
    /\ NoGraveyard
    /\ NoResilience

Next ==
    \/ \E now \in Seconds, c \in ExperimentalConfigs, s \in TrafficSplits,
          m \in MinSampleSizes : create_trial(now, c, s, m)
    \/ \E i \in 1..MaxTrials : start(i)
    \/ \E i \in 1..MaxTrials : pause(i)
    \/ \E i \in 1..MaxTrials : resume(i)
    \/ \E i \in 1..MaxTrials, r \in Draws : assign_branch(i, r)
    \/ \E id \in Seconds, b \in BranchArgs, t \in TierArgs : record_qualification(id, b, t)
    \/ \E id \in Seconds, b \in BranchArgs, o \in OutcomeArgs, d \in DealValues,
          c \in Costs : record_outcome(id, b, o, d, c)
    \/ \E id \in Seconds : evaluate_trial(id)
    \/ \E id \in Seconds : promote_experimental(id)
    \/ \E id \in Seconds : archive_trial(id)

Spec == Init /\ [][Next]_vars

----------------------------------------------------------------------------
(* Evaluation of one trial: the manager holds one running trial whose      *)
(* branches have any of the counters the record operations produce         *)
(* (tiers hot and disqualified, outcomes won and lost, each won deal worth *)
(* 0 or one of DealValues), and evaluates and promotes it.                 *)

EvalCounters ==
    {c \in (0..MaxEvalLeads) \X (0..MaxEvalLeads) \X (0..MaxEvalOutcomes)
           \X (0..MaxEvalOutcomes) \X (0..MaxEvalOutcomes) :
        /\ c[2] <= c[1]
        /\ c[3] + c[4] <= MaxEvalOutcomes
        /\ c[5] <= c[3]}

EvalBranches(name, config) ==
    {[TrialBranch(name, config) EXCEPT
        !.leads_qualified = c[1], !.leads_hot = c[1] - c[2], !.leads_disqualified = c[2],
        !.outcomes_won = c[3], !.outcomes_lost = c[4], !.total_revenue = c[5] * d] :
            c \in EvalCounters, d \in DealValues}

InitEval ==
    /\ \E cb \in EvalBranches("classic", DefaultStandard),
          eb \in EvalBranches(<<"experimental", 0>>, AuthorityWeighted),
          m \in 1..MaxEvalSample :
            trials = <<[Trial(0, cb, eb, 50, m) EXCEPT !.status = RUNNING]>>
    /\ standards_history = <<>>
    /\ current_standard = NoFile
    /\ ret = Call("start", 1, RetNone)
    /\ recorded_exp = {}
    /\ NoQualifier
    /\ NoLedger
    /\ NoGraveyard
    /\ NoResilience

NextEval ==
    \/ \E id \in Seconds : evaluate_trial(id)
    \/ \E id \in Seconds : promote_experimental(id)

SpecEval == InitEval /\ [][NextEval]_vars

\* The same trial under a manager that also goes on recording
\* qualifications and outcomes, before and after the trial is evaluated and
\* promoted.
NextRecording ==
    \/ \E id \in Seconds : evaluate_trial(id)
    \/ \E id \in Seconds : promote_experimental(id)
    \/ \E id \in Seconds, b \in BranchArgs, t \in TierArgs : record_qualification(id, b, t)
    \/ \E id \in Seconds, b \in BranchArgs, o \in OutcomeArgs, d \in DealValues,
          c \in Costs : record_outcome(id, b, o, d, c)

SpecRecording == InitEval /\ [][NextRecording]_vars

----------------------------------------------------------------------------
(* Perception of one record: a lens of any name holds one record, whose    *)
(* fields are absent or as in the examples of the sources, and perceives   *)
(* it.                                                                     *)

LensNames == CalibratedLenses \cup {"custom"}

ExamplePainPoints == <<"security compliance", "access management", "audit requirements">>

\* the leads of the qualifier's example run
hot001 ==
    [LeadData("hot001") EXCEPT
        !.contact_name = "john smith", !.contact_title = "vp", !.industry = "saas",
        !.company_size = "enterprise", !.source = "referral",
        !.pain_points = ExamplePainPoints, !.is_decision_maker = True,
        !.budget_mentioned = True, !.timeline_mentioned = "this_quarter",
        !.meeting_requests = 2, !.use_case = "replace legacy iam system"]

warm001 ==
    [LeadData("warm001") EXCEPT
        !.contact_name = "jane doe", !.contact_title = "it manager", !.industry = "fintech",
        !.company_size = "mid-market", !.source = "inbound",
        !.pain_points = <<"user management">>, !.timeline_mentioned = "next_quarter",
        !.website_visits = 3]

cold001 ==
    [LeadData("cold001") EXCEPT
        !.contact_name = "bob wilson", !.contact_title = "engineer",
        !.industry = "technology", !.company_size = "smb", !.source = "outbound",
        !.website_visits = 1]

disq001 ==
    [LeadData("disq001") EXCEPT
        !.industry = "other", !.company_size = "startup", !.source = "unknown"]

\* a record whose meeting_requests is None
Malformed == [LeadData("bad001") EXCEPT !.meeting_requests = NoneInt]

\* a record with every signal present
FullLead ==
    [hot001 EXCEPT
        !.lead_id = "full001", !.company_size = "mid-market",
        !.timeline_mentioned = "immediate",
        !.tech_stack = <<"aws", "okta", "kubernetes", "postgres">>,
        !.content_downloads = <<"whitepaper", "case study", "roi calculator">>,
        !.website_visits = 6]

ExampleLeads == {hot001, warm001, cold001, disq001}

GridLeads ==
    {[LeadData("lead") EXCEPT
        !.source = f[1], !.pain_points = f[2], !.is_decision_maker = f[3],
        !.budget_mentioned = f[4], !.timeline_mentioned = f[5], !.contact_title = f[6],
        !.company_size = f[7], !.industry = f[8], !.competitor_mentioned = f[9],
        !.use_case = f[10], !.notes = f[11], !.meeting_requests = m] :
        f \in {"referral", "unknown"} \X {<<>>, ExamplePainPoints} \X {None, True, False}
               \X {None, True} \X {None, "this_quarter"} \X {None, "vp"}
               \X {None, "enterprise"} \X {None, "saas"} \X {<<>>, <<"okta">>}
               \X {None, "replace legacy iam system"} \X {"", "urgent"},
        m \in {NoneInt, 0, 2}}

Leads == GridLeads \cup ExampleLeads \cup {FullLead}

InitLens ==
    /\ lens_name \in LensNames
    /\ lead \in {<<l>> : l \in Leads}
    /\ ret = Call("__init__", 0, RetNone)
    /\ trials = <<>>
    /\ standards_history = <<>>
    /\ current_standard = NoFile
    /\ recorded_exp = {}
    /\ stats = NoStats
    /\ qualification_log = <<>>
    /\ threads = NoThreads
    /\ NoLedger
    /\ NoGraveyard
    /\ NoResilience

NextLens == perceive

SpecLens == InitLens /\ [][NextLens]_vars

----------------------------------------------------------------------------
(* The urgency transform on its own: a lens of any name is given raw       *)
(* urgency values from -1 to 4.                                            *)

RawInputs == {R(n, RawScale) : n \in (0 - RawScale)..(4 * RawScale)}

InitUrgency ==
    /\ lens_name \in LensNames
    /\ lead = NoLead
    /\ ret = Call("__init__", 0, RetNone)
    /\ trials = <<>>
    /\ standards_history = <<>>
    /\ current_standard = NoFile
    /\ recorded_exp = {}
    /\ stats = NoStats
    /\ qualification_log = <<>>
    /\ threads = NoThreads
    /\ NoLedger
    /\ NoGraveyard
    /\ NoResilience

NextUrgency == \E q_raw \in RawInputs : call_biological_optimization(q_raw)

SpecUrgency == InitUrgency /\ [][NextUrgency]_vars

----------------------------------------------------------------------------
(* The qualifier: a LeadQualifier of any lens qualifies the records of the *)
(* example run and a malformed one, singly and in batches.                 *)

QLeads == ExampleLeads \cup {Malformed}

Batches == UNION {[1..n -> QLeads] : n \in 0..MaxBatch}

InitQualifier ==
    /\ lens_name \in LensNames
    /\ lead = NoLead
    /\ stats = NoStats
    /\ qualification_log = <<>>
    /\ ret = Call("__init__", 0, RetNone)
    /\ trials = <<>>
    /\ standards_history = <<>>
    /\ current_standard = NoFile
    /\ recorded_exp = {}
    /\ threads = NoThreads
    /\ NoLedger
    /\ NoGraveyard
    /\ NoResilience

NextQualifier ==
    \/ \E l \in QLeads : qualify(l)
    \/ \E leads \in Batches : qualify_batch(leads)

SpecQualifier == InitQualifier /\ [][NextQualifier]_vars

----------------------------------------------------------------------------
(* The order of a batch: a LeadQualifier of any lens qualifies every pair  *)
(* of records of a grid that spans the four tiers and, within each tier,   *)
(* the weakest and the strongest urgency and authority signals.            *)

PriorityLeads ==
    {[LeadData("lead") EXCEPT
        !.source = f[1], !.is_decision_maker = f[2],
        !.budget_mentioned = f[3][1], !.contact_title = f[3][2],
        !.timeline_mentioned = f[4][1], !.notes = f[4][2],
        !.company_size = f[5], !.competitor_mentioned = f[6],
        !.industry = f[7][1], !.use_case = f[7][2], !.meeting_requests = f[7][3]] :
        f \in {"referral", "unknown"} \X {True, False}
               \X {<<None, None>>, <<True, "vp">>}
               \X {<<None, "">>, <<"this_quarter", "urgent">>}
               \X {None, "enterprise"} \X {<<>>, <<"okta">>}
               \X {<<None, None, 0>>, <<"saas", "replace legacy iam system", 2>>}}

\* the bound of qualify_batch on the log, tested before the pair is drawn
NextPriority ==
    /\ Len(qualification_log) + 2 <= MaxLog
    /\ \E a, b \in PriorityLeads : qualify_batch(<<a, b>>)

SpecPriority == InitQualifier /\ [][NextPriority]_vars

----------------------------------------------------------------------------
(* Concurrent callers of one TrialManager and one LeadQualifier.  Neither  *)
(* class takes a lock; "x += n" on an attribute or a dict entry is a load  *)
(* followed by a store, and another caller can run between the two.  A     *)
(* caller begins one call, which fixes the increments it is to make, then  *)
(* makes them one load and one store at a time, then finishes.             *)

Idle == [call |-> "idle", todo |-> <<>>, made |-> <<>>, loaded |-> <<>>,
         entry |-> <<>>, done |-> FALSE]

Increment(object, counter, amount) ==
    [object |-> object, counter |-> counter, amount |-> amount]

\* _update_stats (qualifier.py lines 211-212)
StatsIncrements(result) ==
    <<Increment("stats", "total_qualified", 1),
      Increment("stats", result.qualification_tier, 1)>>

\* record_qualification (trial_manager.py lines 332-341)
QualificationIncrements(branch, tier) ==
    <<Increment(branch, "leads_qualified", 1)>>
        \o (IF tier = "hot" THEN <<Increment(branch, "leads_hot", 1)>>
            ELSE IF tier = "warm" THEN <<Increment(branch, "leads_warm", 1)>>
            ELSE IF tier = "cold" THEN <<Increment(branch, "leads_cold", 1)>>
            ELSE IF tier = "disqualified" THEN <<Increment(branch, "leads_disqualified", 1)>>
            ELSE <<>>)

\* record_outcome (trial_manager.py lines 361-367)
OutcomeIncrements(branch, outcome_type, deal_value, cost) ==
    (IF outcome_type = "won"
     THEN <<Increment(branch, "outcomes_won", 1), Increment(branch, "total_revenue", deal_value)>>
     ELSE <<Increment(branch, "outcomes_lost", 1)>>)
        \o <<Increment(branch, "total_cost", cost)>>

Begin(t, call, todo, entry) ==
    /\ t \in DOMAIN threads
    /\ threads[t].call = "idle"
    /\ threads' = [threads EXCEPT ![t] = [call |-> call, todo |-> todo, made |-> todo,
                                          loaded |-> <<>>, entry |-> entry, done |-> FALSE]]
    /\ UNCHANGED <<trials, standards_history, current_standard, recorded_exp, ret,
                   qualifier_vars, ledger_vars, graveyard_vars, resilience_vars>>

\* qualify up to the call of _update_stats: perceive and the result are the caller's own
begin_qualify(t, l) ==
    LET coherence == Reading(l) IN
    IF coherence.kind = "raise" THEN Begin(t, "qualify", <<>>, <<>>)
    ELSE LET result == QualificationResult(l, coherence) IN
         Begin(t, "qualify", StatsIncrements(result), <<to_dict(result)>>)

begin_record_qualification(t, trial_id, branch, tier) ==
    LET i == _get_trial(trial_id) IN
    Begin(t, "record_qualification",
          IF i = 0 THEN <<>> ELSE QualificationIncrements(_get_branch(branch), tier), <<>>)

begin_record_outcome(t, trial_id, branch, outcome_type, deal_value, cost) ==
    LET i == _get_trial(trial_id) IN
    Begin(t, "record_outcome",
          IF i = 0 THEN <<>>
          ELSE OutcomeIncrements(_get_branch(branch), outcome_type, deal_value, cost), <<>>)

\* the counter an increment is about: an entry of the qualifier's stats or a
\* field of a branch of the one trial
Counter(inc) ==
    IF inc.object = "stats" THEN stats[inc.counter] ELSE trials[1][inc.object][inc.counter]

load(t) ==
    /\ t \in DOMAIN threads
    /\ threads[t].todo # <<>>
    /\ threads[t].loaded = <<>>
    /\ threads' = [threads EXCEPT ![t].loaded = <<Counter(threads[t].todo[1])>>]
    /\ UNCHANGED <<trials, standards_history, current_standard, recorded_exp, ret,
                   qualifier_vars, ledger_vars, graveyard_vars, resilience_vars>>

store(t) ==
    /\ t \in DOMAIN threads
    /\ threads[t].loaded # <<>>
    /\ LET inc == threads[t].todo[1]
           value == threads[t].loaded[1] + inc.amount
       IN  IF inc.object = "stats"
           THEN /\ stats' = [stats EXCEPT ![inc.counter] = value]
                /\ UNCHANGED trials
           ELSE /\ trials' = [trials EXCEPT ![1][inc.object][inc.counter] = value]
                /\ UNCHANGED stats
    /\ threads' = [threads EXCEPT ![t].todo = Tail(@), ![t].loaded = <<>>]
    /\ UNCHANGED <<standards_history, current_standard, recorded_exp, ret,
                   lens_name, lead, qualification_log, ledger_vars, graveyard_vars, resilience_vars>>

\* the rest of the call: qualify appends its log entry (list.append is one step)
finish(t) ==
    /\ t \in DOMAIN threads
    /\ threads[t].call # "idle"
    /\ threads[t].todo = <<>>
    /\ ~threads[t].done
    /\ qualification_log' = qualification_log \o threads[t].entry
    /\ threads' = [threads EXCEPT ![t].done = TRUE]
    /\ UNCHANGED <<trials, standards_history, current_standard, recorded_exp, ret,
                   lens_name, lead, stats, ledger_vars, graveyard_vars, resilience_vars>>

InitThreads ==
    /\ trials = <<[Trial(0, TrialBranch("classic", DefaultStandard),
                          TrialBranch(<<"experimental", 0>>, AuthorityWeighted), 50, 1)
                    EXCEPT !.status = RUNNING]>>
    /\ standards_history = <<>>
    /\ current_standard = NoFile
    /\ ret = Call("start", 1, RetNone)
    /\ recorded_exp = {}
    /\ lens_name = "enterprise_saas"
    /\ lead = NoLead
    /\ stats = NoStats
    /\ qualification_log = <<>>
    /\ threads = [t \in 1..MaxThreads |-> Idle]
    /\ NoLedger
    /\ NoGraveyard
    /\ NoResilience

NextThreads ==
    \/ \E t \in 1..MaxThreads, l \in QLeads : begin_qualify(t, l)
    \/ \E t \in 1..MaxThreads, id \in Seconds, b \in BranchArgs, tier \in TierArgs :
          begin_record_qualification(t, id, b, tier)
    \/ \E t \in 1..MaxThreads, id \in Seconds, b \in BranchArgs, o \in OutcomeArgs,
          d \in DealValues, c \in Costs : begin_record_outcome(t, id, b, o, d, c)
    \/ \E t \in 1..MaxThreads : load(t)
    \/ \E t \in 1..MaxThreads : store(t)
    \/ \E t \in 1..MaxThreads : finish(t)

SpecThreads == InitThreads /\ [][NextThreads]_vars

----------------------------------------------------------------------------
(* The outcome recorder (src/src/pipeline/outcome.py) and the nutrients of *)
(* the graveyard (src/src/graveyard/graveyard_manager.py): records are     *)
(* saved as the JSON of their to_dict, and a recorder or a graveyard       *)
(* constructed on the same storage reconstructs them from the files.       *)
(* Amounts and scores are exact rationals.  Names, notes, stamps, the      *)
(* trial branch and the graveyard's copies of outcome dictionaries are     *)
(* left out.                                                               *)

\* round(x, ndigits) of a non-negative x: the nearest multiple of
\* 10^-ndigits, a tie going to the even one.  Python rounds the binary
\* float; the amounts of the model are ties only where the float is exact.
round(x, ndigits) ==
    LET scale == 10 ^ ndigits
        scaled == x[1] * scale
        whole == scaled \div x[2]
        twice == 2 * (scaled % x[2])
        up == twice > x[2] \/ (twice = x[2] /\ whole % 2 = 1)
    IN  R(IF up THEN whole + 1 ELSE whole, scale)

WON == "won"
LOST_DARK == "lost_dark"

\* the outcome types whose value starts with 'lost_'
LostTypes ==
    {"lost_competitor", "lost_no_budget", "lost_no_decision", "lost_timing", LOST_DARK}

Outcome(lead_id, outcome_type, deal_value, expected_value, cost_to_acquire, coherence_score, what_went_wrong) ==
    [lead_id |-> lead_id, outcome_type |-> outcome_type, deal_value |-> deal_value,
     expected_value |-> expected_value, cost_to_acquire |-> cost_to_acquire,
     coherence_score |-> coherence_score, what_went_wrong |-> what_went_wrong]

is_won(o) == o.outcome_type = WON
is_lost(o) == o.outcome_type \in LostTypes

roi(o) ==
    IF RLess(RZero, o.cost_to_acquire)
    THEN RDiv(RSub(o.deal_value, o.cost_to_acquire), o.cost_to_acquire)
    ELSE RZero

\* round(score, 3) if score else None: an absent score and the score 0.0 both give None
RoundedScore(score) ==
    IF score = <<>> \/ score = <<RZero>> THEN <<>> ELSE <<round(score[1], 3)>>

\* Outcome.to_dict
Outcome_to_dict(o) ==
    [lead_id |-> o.lead_id, outcome_type |-> o.outcome_type,
     is_won |-> is_won(o), is_lost |-> is_lost(o),
     deal_value |-> round(o.deal_value, 2), expected_value |-> round(o.expected_value, 2),
     cost_to_acquire |-> round(o.cost_to_acquire, 2), roi |-> round(roi(o), 2),
     coherence_score |-> RoundedScore(o.coherence_score),
     learnings |-> [what_went_wrong |-> o.what_went_wrong]]

\* Outcome(**data) without is_won, is_lost, roi, days_to_close and learnings
\* (lines 269-272): the lists of learnings get their default
LoadedOutcome(data) ==
    Outcome(data.lead_id, data.outcome_type, data.deal_value, data.expected_value,
            data.cost_to_acquire, data.coherence_score, <<>>)

OutcomeFile(o) == [name |-> <<o.lead_id, o.outcome_type>>, data |-> Outcome_to_dict(o)]

_save_outcome(op, outcome) ==
    /\ Len(outcomes) < MaxStored
    /\ outcomes' = Append(outcomes, outcome)
    /\ outcome_files' = {f \in outcome_files : f.name # OutcomeFile(outcome).name}
                            \cup {OutcomeFile(outcome)}
    /\ ret' = Call(op, outcome, RetNone)
    /\ UNCHANGED <<trial_vars, qualifier_vars, threads, nutrients, nutrient_files,
                   graveyard_vars, resilience_vars>>

record_won(lead_id, deal_value, expected_value, cost_to_acquire, coherence_score) ==
    _save_outcome("record_won",
                  Outcome(lead_id, WON, deal_value, expected_value, cost_to_acquire,
                          coherence_score, <<>>))

record_lost(lead_id, loss_type, expected_value, cost_to_acquire, coherence_score, what_went_wrong) ==
    _save_outcome("record_lost",
                  Outcome(lead_id, loss_type, RZero, expected_value, cost_to_acquire,
                          coherence_score, what_went_wrong))

\* the files of a set in any order (the order of glob)
Listings(files) ==
    {order \in [1..Cardinality(files) -> files] :
        \A j, k \in 1..Cardinality(files) : j # k => order[j] # order[k]}

\* OutcomeRecorder(storage_dir) on the storage at hand: __init__ and _load_outcomes
_load_outcomes ==
    /\ \E order \in Listings(outcome_files) :
          outcomes' = [k \in 1..Len(order) |-> LoadedOutcome(order[k].data)]
    /\ ret' = Call("_load_outcomes", 0, RetNone)
    /\ UNCHANGED <<trial_vars, qualifier_vars, threads, outcome_files, nutrients,
                   nutrient_files, graveyard_vars, resilience_vars>>

Nutrient(lead_id, outcome_type, category, lesson, severity, coherence_score) ==
    [lead_id |-> lead_id, outcome_type |-> outcome_type, category |-> category,
     lesson |-> lesson, severity |-> severity, coherence_score |-> coherence_score,
     applied_to_standard |-> FALSE]

\* Nutrient.to_dict
Nutrient_to_dict(n) ==
    [lead_id |-> n.lead_id, outcome_type |-> n.outcome_type, category |-> n.category,
     lesson |-> n.lesson, severity |-> n.severity,
     coherence_score |-> RoundedScore(n.coherence_score),
     applied_to_standard |-> n.applied_to_standard]

\* Nutrient(**data) without extracted_at (line 472)
LoadedNutrient(data) ==
    [lead_id |-> data.lead_id, outcome_type |-> data.outcome_type,
     category |-> data.category, lesson |-> data.lesson, severity |-> data.severity,
     coherence_score |-> data.coherence_score,
     applied_to_standard |-> data.applied_to_standard]

\* the file name holds the lead, the category and a digest of the lesson
NutrientFile(n) == [name |-> <<n.lead_id, n.category, n.lesson>>, data |-> Nutrient_to_dict(n)]

\* bury_lead's extension of the list and save of one extracted nutrient
_save_nutrient(nutrient) ==
    /\ Len(nutrients) < MaxStored
    /\ nutrients' = Append(nutrients, nutrient)
    /\ nutrient_files' = {f \in nutrient_files : f.name # NutrientFile(nutrient).name}
                             \cup {NutrientFile(nutrient)}
    /\ ret' = Call("_save_nutrient", nutrient, RetNone)
    /\ UNCHANGED <<trial_vars, qualifier_vars, threads, outcomes, outcome_files,
                   graveyard_vars, resilience_vars>>

\* GraveyardManager(storage_dir) on the storage at hand: __init__ and _load_graveyard
_load_graveyard ==
    /\ \E order \in Listings(graveyard_files) :
          graveyard_leads' = [k \in 1..Len(order) |-> order[k].data]
    /\ \E order \in Listings(nutrient_files) :
          nutrients' = [k \in 1..Len(order) |-> LoadedNutrient(order[k].data)]
    /\ patterns' = <<>>
    /\ ret' = Call("_load_graveyard", 0, RetNone)
    /\ UNCHANGED <<trial_vars, qualifier_vars, threads, outcomes, outcome_files,
                   nutrient_files, graveyard_files, resilience_vars>>

\* deal value, expected value and acquisition cost
Amounts ==
    {<<R(50000, 1), R(60000, 1), R(2001, 2)>>,
     <<R(1234567, 1000), R(99999, 1000), R(1, 8)>>,
     <<RZero, RZero, RZero>>}

Scores == {<<>>, <<RZero>>, <<R(24416, 10000)>>}
GivenScores == {<<>>, <<R(24416, 10000)>>}

LeadIds == {"hot001", "warm001"}

Nutrients ==
    {Nutrient(id, LOST_DARK, category, "went dark after the demo", severity, score) :
        id \in {"warm001"}, category \in {"engagement", "pricing"},
        severity \in {"minor", "critical"}, score \in Scores \ {<<>>}}

InitLedger ==
    /\ NoLedger
    /\ NoGraveyard
    /\ NoResilience
    /\ ret = Call("__init__", 0, RetNone)
    /\ trials = <<>>
    /\ standards_history = <<>>
    /\ current_standard = NoFile
    /\ recorded_exp = {}
    /\ NoQualifier

NextLedger ==
    \/ \E id \in LeadIds, a \in Amounts, score \in GivenScores :
          record_won(id, a[1], a[2], a[3], score)
    \/ \E id \in LeadIds, a \in Amounts, wrong \in {<<>>, <<"price too high">>} :
          record_lost(id, LOST_DARK, a[2], a[3], <<>>, wrong)
    \/ _load_outcomes
    \/ \E n \in Nutrients : _save_nutrient(n)
    \/ _load_graveyard

SpecLedger == InitLedger /\ [][NextLedger]_vars

----------------------------------------------------------------------------
(* The graveyard (src/src/graveyard/graveyard_manager.py): bury_lead and   *)
(* analyze_patterns.  An outcome is the dictionary bury_lead is given;     *)
(* its company name and trial branch, a nutrient's tier and a pattern's    *)
(* average coherence and recommended action are left out.                  *)

\* An outcome dictionary.  coherence_score is <<>> for None and <<score>> for
\* a float, has_coherence_score tells whether the key is there at all;
\* qualification_tier, competitor_chosen and lesson_learned are <<>> for
\* None or a missing key.
OutcomeDict(lead_id, outcome_type, qualification_tier, has_coherence_score, coherence_score, expected_value, competitor_chosen, what_went_wrong, lesson_learned) ==
    [lead_id |-> lead_id, outcome_type |-> outcome_type,
     qualification_tier |-> qualification_tier,
     has_coherence_score |-> has_coherence_score, coherence_score |-> coherence_score,
     expected_value |-> expected_value, competitor_chosen |-> competitor_chosen,
     learnings |-> [what_went_wrong |-> what_went_wrong,
                    lesson_learned |-> lesson_learned]]

\* outcome.get('coherence_score', 0)
get_coherence_score(outcome) ==
    IF outcome.has_coherence_score THEN outcome.coherence_score ELSE <<RZero>>

\* the keywords of _categorize_issue that are substrings of the lower-cased
\* text, for the texts of the model
KeywordsIn(text) ==
    CASE text = "Price too high" -> {"price"}
      [] text = "No champion identified" -> {"champion"}
      [] text = "Poor value communication about budget" -> {"budget", "communication", "value"}
      [] text = "Qualify budget earlier" -> {"budget", "qualify"}
      [] OTHER -> {}

\* the categories in the order of the dictionary
categories ==
    << <<"qualification", {"qualify", "icp", "fit", "criteria", "disqualif"}>>,
       <<"messaging", {"message", "value", "positioning", "communication", "pitch"}>>,
       <<"timing", {"timing", "timeline", "urgency", "too early", "too late"}>>,
       <<"authority", {"authority", "decision", "stakeholder", "champion", "multi-thread"}>>,
       <<"pricing", {"price", "budget", "cost", "expensive", "roi"}>>,
       <<"competitive", {"competitor", "competitive", "alternative", "comparison"}>>,
       <<"engagement", {"engagement", "response", "dark", "ghosted", "follow-up"}>>,
       <<"technical", {"technical", "integration", "feature", "requirement"}>> >>

RECURSIVE CategoryFrom(_, _)
CategoryFrom(found, k) ==
    IF k > Len(categories) THEN "general"
    ELSE IF categories[k][2] \cap found # {} THEN categories[k][1]
    ELSE CategoryFrom(found, k + 1)

_categorize_issue(issue) == CategoryFrom(KeywordsIn(issue), 1)

CriticalValue == 50000

\* _assess_severity compares a coherence of None with a float (line 279)
\* unless the expected value decides
SeverityRaises(outcome) ==
    /\ ~(outcome.expected_value > CriticalValue)
    /\ get_coherence_score(outcome) = <<>>

SeverityOfCoherence(coherence) ==
    IF RLess(R(5, 2), coherence) THEN "critical"
    ELSE IF RLess(R(3, 2), coherence) THEN "moderate"
    ELSE "minor"

_assess_severity(issue, outcome) ==
    IF outcome.expected_value > CriticalValue THEN "critical"
    ELSE SeverityOfCoherence(get_coherence_score(outcome)[1])

\* f"{coherence:.2f}", for the scores of the model
Format2f(score) ==
    CASE score = RZero -> "0.00"
      [] score = R(1, 2) -> "0.50"
      [] score = R(2, 1) -> "2.00"
      [] score = R(14, 5) -> "2.80"

IssueNutrient(outcome, issue) ==
    Nutrient(outcome.lead_id, outcome.outcome_type, _categorize_issue(issue), issue,
             _assess_severity(issue, outcome), outcome.coherence_score)

LessonNutrients(outcome) ==
    IF outcome.learnings.lesson_learned = <<>> THEN <<>>
    ELSE <<Nutrient(outcome.lead_id, outcome.outcome_type,
                    _categorize_issue(outcome.learnings.lesson_learned[1]),
                    outcome.learnings.lesson_learned[1], "moderate",
                    outcome.coherence_score)>>

\* the nutrient inferred from the outcome type (lines 202-245)
InferredNutrients(outcome) ==
    IF outcome.outcome_type = "lost_competitor"
    THEN IF outcome.competitor_chosen = <<>> THEN <<>>
         ELSE <<Nutrient(outcome.lead_id, outcome.outcome_type, "competitive",
                         "Lost to " \o outcome.competitor_chosen[1]
                             \o " - analyze competitive positioning",
                         "moderate", outcome.coherence_score)>>
    ELSE IF outcome.outcome_type = LOST_DARK
    THEN <<Nutrient(outcome.lead_id, outcome.outcome_type, "engagement",
                    "Lead went dark - review engagement cadence and value delivery",
                    "moderate", outcome.coherence_score)>>
    ELSE IF outcome.outcome_type = "disqualified"
    THEN <<Nutrient(outcome.lead_id, outcome.outcome_type, "qualification",
                    "Disqualified with coherence "
                        \o Format2f(get_coherence_score(outcome)[1])
                        \o " - review qualification criteria",
                    "minor", outcome.coherence_score)>>
    ELSE <<>>

\* the f-string of line 240 formats a coherence of None
InferenceRaises(outcome) ==
    /\ outcome.outcome_type = "disqualified"
    /\ get_coherence_score(outcome) = <<>>

\* GraveyardManager._extract_nutrients: the list, or the TypeError raised
_extract_nutrients(outcome) ==
    IF \/ outcome.learnings.what_went_wrong # <<>> /\ SeverityRaises(outcome)
       \/ InferenceRaises(outcome)
    THEN RetRaise("TypeError")
    ELSE RetList([k \in 1..Len(outcome.learnings.what_went_wrong) |->
                     IssueNutrient(outcome, outcome.learnings.what_went_wrong[k])]
                 \o LessonNutrients(outcome) \o InferredNutrients(outcome))

GraveyardFile(outcome) ==
    [name |-> <<outcome.lead_id, outcome.outcome_type>>, data |-> outcome]

RECURSIVE SavedNutrients(_, _)
\* _save_nutrient for each nutrient of the list
SavedNutrients(files, list) ==
    IF list = <<>> THEN files
    ELSE SavedNutrients({f \in files : f.name # NutrientFile(Head(list)).name}
                            \cup {NutrientFile(Head(list))},
                        Tail(list))

\* nutrients the graveyard already holds are not added again
Extracted_deduplicated(extracted) ==
    IF extracted.kind = "raise"
    THEN UNCHANGED <<nutrients, nutrient_files>>
    ELSE /\ nutrients' = nutrients \o SelectSeq(extracted.value,
                                                 LAMBDA n : n \notin SeqRange(nutrients))
         /\ nutrient_files' = SavedNutrients(nutrient_files, extracted.value)

\* bury_lead after the outcome is appended and saved
Extracted(extracted) ==
    IF extracted.kind = "raise"
    THEN UNCHANGED <<nutrients, nutrient_files>>
    ELSE /\ nutrients' = nutrients \o extracted.value
         /\ nutrient_files' = SavedNutrients(nutrient_files, extracted.value)

bury_lead(outcome) ==
    /\ Len(graveyard_leads) < MaxBuried
    /\ graveyard_leads' = Append(graveyard_leads, outcome)
    /\ graveyard_files' = {f \in graveyard_files : f.name # GraveyardFile(outcome).name}
                              \cup {GraveyardFile(outcome)}
    /\ Extracted(_extract_nutrients(outcome))
    /\ ret' = Call("bury_lead", outcome, _extract_nutrients(outcome))
    /\ UNCHANGED <<trial_vars, qualifier_vars, threads, outcomes, outcome_files,
                   patterns, resilience_vars>>

FailurePattern(pattern_type, frequency, affected_leads, primary_tier, priority) ==
    [pattern_type |-> pattern_type, frequency |-> frequency,
     affected_leads |-> affected_leads, primary_tier |-> primary_tier,
     priority |-> priority]

AppendNew(seq, x) == IF x \in SeqRange(seq) THEN seq ELSE Append(seq, x)

RECURSIVE FirstOccurrences(_)
\* the keys of Counter(seq), in the order of their first occurrence
FirstOccurrences(seq) ==
    IF seq = <<>> THEN <<>>
    ELSE AppendNew(FirstOccurrences(SubSeq(seq, 1, Len(seq) - 1)), seq[Len(seq)])

\* Counter(seq)[x]
CountIn(seq, x) == Cardinality({k \in DOMAIN seq : seq[k] = x})

RECURSIVE InsertByCount(_, _, _)
InsertByCount(sorted, x, seq) ==
    IF sorted = <<>> THEN <<x>>
    ELSE IF CountIn(seq, sorted[Len(sorted)]) < CountIn(seq, x)
         THEN Append(InsertByCount(SubSeq(sorted, 1, Len(sorted) - 1), x, seq),
                     sorted[Len(sorted)])
         ELSE Append(sorted, x)

RECURSIVE SortByCount(_, _)
SortByCount(keys, seq) ==
    IF keys = <<>> THEN <<>>
    ELSE InsertByCount(SortByCount(SubSeq(keys, 1, Len(keys) - 1), seq),
                       keys[Len(keys)], seq)

\* the keys of Counter(seq).most_common(n): by count, the larger first, keys of
\* equal count in the order of their first occurrence
most_common(seq, n) ==
    SubSeq(SortByCount(FirstOccurrences(seq), seq), 1,
           IF Len(FirstOccurrences(seq)) < n THEN Len(FirstOccurrences(seq)) ELSE n)

RECURSIVE Concat(_)
Concat(lists) == IF lists = <<>> THEN <<>> ELSE Head(lists) \o Concat(Tail(lists))

LeadIdsOf(leads) == [k \in DOMAIN leads |-> leads[k].lead_id]

\* GraveyardManager._primary_tier, <<tier>> or <<"unknown">>
TiersOf(leads) == [k \in DOMAIN leads |-> leads[k].qualification_tier[1]]

_primary_tier_of(tiers) ==
    IF tiers = <<>> THEN <<"unknown">> ELSE <<most_common(tiers, 1)[1]>>

_primary_tier(leads, lead_ids) ==
    _primary_tier_of(TiersOf(SelectSeq(leads,
        LAMBDA o : o.lead_id \in SeqRange(lead_ids) /\ o.qualification_tier # <<>>)))

\* competitor.replace(' ', '_'), for the competitors of the model
replace_spaces(competitor) ==
    CASE competitor = "Ping Identity" -> "Ping_Identity"
      [] OTHER -> competitor

\* Pattern 1: frequent loss to one competitor
CompetitorPattern(leads, competitors, competitor, affected) ==
    IF CountIn(competitors, competitor) >= 2
    THEN <<FailurePattern("frequent_loss_to_" \o replace_spaces(competitor),
                          CountIn(competitors, competitor), LeadIdsOf(affected),
                          _primary_tier(leads, LeadIdsOf(affected)),
                          IF CountIn(competitors, competitor) > 3 THEN "high"
                          ELSE "medium")>>
    ELSE <<>>

CompetitorPatternsOf(leads, competitors, top) ==
    Concat([k \in DOMAIN top |->
        CompetitorPattern(leads, competitors, top[k],
            SelectSeq(leads, LAMBDA o : o.competitor_chosen = <<top[k]>>))])

CompetitorsOf(chosen) == [k \in DOMAIN chosen |-> chosen[k].competitor_chosen[1]]

CompetitorPatterns(leads) ==
    CompetitorPatternsOf(leads,
        CompetitorsOf(SelectSeq(leads, LAMBDA o : o.competitor_chosen # <<>>)),
        most_common(CompetitorsOf(SelectSeq(leads,
                        LAMBDA o : o.competitor_chosen # <<>>)), 3))

\* str(tier) in the f-string of the pattern type
TierName(tier) == IF tier = <<>> THEN "None" ELSE tier[1]

\* Pattern 2: leads of one tier going dark
DarkPattern(dark_leads, tier, affected) ==
    IF Len(affected) >= 2
    THEN <<FailurePattern(TierName(tier) \o "_tier_going_dark", Len(affected),
                          LeadIdsOf(affected), tier,
                          IF tier = <<"hot">> THEN "high" ELSE "medium")>>
    ELSE <<>>

DarkPatternsOf(dark_leads, tiers) ==
    Concat([k \in DOMAIN tiers |->
        DarkPattern(dark_leads, tiers[k],
            SelectSeq(dark_leads, LAMBDA o : o.qualification_tier = tiers[k]))])

MinDarkLeads == 3

\* a tier is reported however few leads went dark
DarkPatternsAmong_any_number(dark_leads) ==
    DarkPatternsOf(dark_leads,
        FirstOccurrences([k \in DOMAIN dark_leads |-> dark_leads[k].qualification_tier]))

DarkPatternsAmong(dark_leads) ==
    IF Len(dark_leads) >= MinDarkLeads
    THEN DarkPatternsOf(dark_leads,
             FirstOccurrences([k \in DOMAIN dark_leads |->
                                  dark_leads[k].qualification_tier]))
    ELSE <<>>

DarkPatterns(leads) ==
    DarkPatternsAmong(SelectSeq(leads, LAMBDA o : o.outcome_type = LOST_DARK))

RECURSIVE SumOfCoherence(_)
SumOfCoherence(leads) ==
    IF leads = <<>> THEN RZero
    ELSE RAdd(get_coherence_score(Head(leads))[1], SumOfCoherence(Tail(leads)))

MinDisqualified == 5

\* Pattern 3 sums coherence scores (line 342): one of None raises TypeError
DisqualifiedRaises(disqualified) ==
    /\ Len(disqualified) >= MinDisqualified
    /\ \E k \in DOMAIN disqualified : get_coherence_score(disqualified[k]) = <<>>

\* Pattern 3: disqualifications at low coherence
DisqualifiedPatternsAmong(disqualified) ==
    IF /\ Len(disqualified) >= MinDisqualified
       /\ RLess(RDiv(SumOfCoherence(disqualified), R(Len(disqualified), 1)), R(4, 5))
    THEN <<FailurePattern("weak_qualification_criteria", Len(disqualified),
                          LeadIdsOf(disqualified), <<"disqualified">>, "critical")>>
    ELSE <<>>

Disqualifications(leads) == SelectSeq(leads, LAMBDA o : o.outcome_type = "disqualified")

\* Pattern 4: one category of nutrient recurring; affected is the listing of
\* a set of lead ids, in the order the set yields them
CategoryPattern(leads, list, category, affected) ==
    IF CountIn(list, category) >= 3
    THEN <<FailurePattern("recurring_" \o category \o "_issues",
                          CountIn(list, category), affected,
                          _primary_tier(leads, affected),
                          IF CountIn(list, category) > 5 THEN "high" ELSE "medium")>>
    ELSE <<>>

CategoryPatternsOf(leads, extracted, list, top, orders) ==
    Concat([k \in DOMAIN top |->
        CategoryPattern(leads, list, top[k],
            SelectSeq(orders[k],
                LAMBDA id : \E j \in DOMAIN extracted :
                    extracted[j].category = top[k] /\ extracted[j].lead_id = id))])

CategoriesOf(extracted) == [k \in DOMAIN extracted |-> extracted[k].category]

CategoryPatterns(leads, extracted, orders) ==
    CategoryPatternsOf(leads, extracted, CategoriesOf(extracted),
                       most_common(CategoriesOf(extracted), 3), orders)

\* GraveyardManager.analyze_patterns: the list, or the TypeError raised
Patterns(leads, extracted, orders) ==
    IF DisqualifiedRaises(Disqualifications(leads)) THEN RetRaise("TypeError")
    ELSE RetList(CompetitorPatterns(leads) \o DarkPatterns(leads)
                 \o DisqualifiedPatternsAmong(Disqualifications(leads))
                 \o CategoryPatterns(leads, extracted, orders))

Analyzed(result) ==
    /\ IF result.kind = "raise" THEN UNCHANGED patterns ELSE patterns' = result.value
    /\ ret' = Call("analyze_patterns", 0, result)

analyze_patterns ==
    /\ \E orders \in [1..3 -> Listings(SeqRange(LeadIdsOf(nutrients)))] :
          Analyzed(Patterns(graveyard_leads, nutrients, orders))
    /\ UNCHANGED <<trial_vars, qualifier_vars, threads, ledger_vars, graveyard_leads,
                   graveyard_files, resilience_vars>>

GraveyardLeadIds == {"hot001", "warm001"}

\* what is lost, and learnt, with a lead
OutcomeKinds ==
    {[outcome_type |-> LOST_DARK, qualification_tier |-> <<"hot">>,
      has_coherence_score |-> TRUE, coherence_score |-> <<R(14, 5)>>,
      expected_value |-> 60000, competitor_chosen |-> <<>>,
      what_went_wrong |-> <<>>, lesson_learned |-> <<>>],
     [outcome_type |-> LOST_DARK, qualification_tier |-> <<"warm">>,
      has_coherence_score |-> TRUE, coherence_score |-> <<R(2, 1)>>,
      expected_value |-> 20000, competitor_chosen |-> <<>>,
      what_went_wrong |-> <<"Price too high", "Unresponsive">>,
      lesson_learned |-> <<"Qualify budget earlier">>],
     [outcome_type |-> "lost_competitor", qualification_tier |-> <<"hot">>,
      has_coherence_score |-> TRUE, coherence_score |-> <<R(14, 5)>>,
      expected_value |-> 20000, competitor_chosen |-> <<"Ping Identity">>,
      what_went_wrong |-> <<"Poor value communication about budget">>,
      lesson_learned |-> <<>>],
     [outcome_type |-> "lost_competitor", qualification_tier |-> <<>>,
      has_coherence_score |-> TRUE, coherence_score |-> <<>>,
      expected_value |-> 60000, competitor_chosen |-> <<>>,
      what_went_wrong |-> <<"No champion identified">>, lesson_learned |-> <<>>],
     [outcome_type |-> "disqualified", qualification_tier |-> <<"disqualified">>,
      has_coherence_score |-> TRUE, coherence_score |-> <<>>,
      expected_value |-> 0, competitor_chosen |-> <<>>,
      what_went_wrong |-> <<>>, lesson_learned |-> <<>>],
     [outcome_type |-> "disqualified", qualification_tier |-> <<"disqualified">>,
      has_coherence_score |-> FALSE, coherence_score |-> <<>>,
      expected_value |-> 0, competitor_chosen |-> <<>>,
      what_went_wrong |-> <<>>, lesson_learned |-> <<>>],
     [outcome_type |-> "lost_timing", qualification_tier |-> <<"warm">>,
      has_coherence_score |-> TRUE, coherence_score |-> <<>>,
      expected_value |-> 20000, competitor_chosen |-> <<>>,
      what_went_wrong |-> <<"Price too high">>, lesson_learned |-> <<>>],
     [outcome_type |-> "lost_timing", qualification_tier |-> <<"cold">>,
      has_coherence_score |-> TRUE, coherence_score |-> <<R(1, 2)>>,
      expected_value |-> 0, competitor_chosen |-> <<>>,
      what_went_wrong |-> <<>>, lesson_learned |-> <<>>]}

OutcomeDicts ==
    {OutcomeDict(id, kind.outcome_type, kind.qualification_tier,
                 kind.has_coherence_score, kind.coherence_score, kind.expected_value,
                 kind.competitor_chosen, kind.what_went_wrong, kind.lesson_learned) :
        id \in GraveyardLeadIds, kind \in OutcomeKinds}

InitGraveyard ==
    /\ NoLedger
    /\ NoGraveyard
    /\ NoResilience
    /\ ret = Call("__init__", 0, RetNone)
    /\ trials = <<>>
    /\ standards_history = <<>>
    /\ current_standard = NoFile
    /\ recorded_exp = {}
    /\ NoQualifier

NextGraveyard ==
    \/ \E outcome \in OutcomeDicts : bury_lead(outcome)
    \/ analyze_patterns

SpecGraveyard == InitGraveyard /\ [][NextGraveyard]_vars

----------------------------------------------------------------------------
(* The fallback resilience tools (src/capabilities/resilience_tools):      *)
(* CircuitBreaker and the on_exception decorator used when the backoff     *)
(* library is not installed.  The wrapped function is what it does when it *)
(* is invoked: it returns, raises the exception the tool watches, or       *)
(* raises another one.                                                     *)

CLOSED == "closed"
OPEN == "open"
HALF_OPEN == "half_open"
CircuitState == [CLOSED |-> CLOSED, OPEN |-> OPEN, HALF_OPEN |-> HALF_OPEN]

Returns == "returns"
RaisesExpected == "raises the expected exception"
RaisesOther == "raises another exception"
FuncOutcomes == {Returns, RaisesExpected, RaisesOther}

\* CircuitBreaker.__init__
CircuitBreaker(failure_threshold, recovery_timeout) ==
    [failure_threshold |-> failure_threshold, recovery_timeout |-> recovery_timeout,
     failure_count |-> 0, last_failure_time |-> <<>>, state |-> CLOSED]

\* what a call through the breaker did: whether func was invoked, and the
\* value returned or the exception raised
Through(invoked, result) == [kind |-> "through", invoked |-> invoked, result |-> result]

\* the recovery timeout has passed at once
TimedOut_at_once(b, t) == TRUE

\* time.time() - self.last_failure_time >= self.recovery_timeout
TimedOut(b, t) == t - b.last_failure_time[1] >= b.recovery_timeout

\* the test of the state on entry (lines 94-99): the breaker as func finds it
Entered(b, t) ==
    IF b.state = OPEN /\ TimedOut(b, t) THEN [b EXCEPT !.state = HALF_OPEN] ELSE b

\* every success resets the count
Succeeded_resetting(b) == [b EXCEPT !.state = CLOSED, !.failure_count = 0]

\* func returned (lines 104-110)
Succeeded(b) ==
    IF b.state = HALF_OPEN THEN [b EXCEPT !.state = CLOSED, !.failure_count = 0] ELSE b

CountedFailure(b, t) == [b EXCEPT !.failure_count = @ + 1, !.last_failure_time = <<t>>]

Tripped(b) == IF b.failure_count >= b.failure_threshold THEN [b EXCEPT !.state = OPEN] ELSE b

\* func raised the expected exception (lines 112-120)
Failed(b, t) == Tripped(CountedFailure(b, t))

\* CircuitBreaker.call with a func of this outcome
call(outcome) ==
    /\ breaker # NoBreaker
    /\ IF breaker.state = OPEN /\ ~TimedOut(breaker, clock)
       THEN /\ ret' = Call("call", outcome, Through(FALSE, RetRaise("Exception")))
            /\ UNCHANGED breaker
       ELSE /\ breaker' = CASE outcome = Returns -> Succeeded(Entered(breaker, clock))
                            [] outcome = RaisesExpected -> Failed(Entered(breaker, clock), clock)
                            [] OTHER -> Entered(breaker, clock)
            /\ ret' = Call("call", outcome,
                           Through(TRUE, IF outcome = Returns THEN RetNone
                                         ELSE RetRaise(outcome)))
    /\ UNCHANGED <<trial_vars, qualifier_vars, threads, ledger_vars, graveyard_vars,
                   clock, retry>>

\* time passes
tick ==
    /\ clock < MaxClock
    /\ clock' = clock + 1
    /\ UNCHANGED <<trial_vars, qualifier_vars, threads, ledger_vars, graveyard_vars,
                   ret, breaker, retry>>

RecoveryTimeouts == {1, 2}

InitBreaker ==
    /\ \E failure_threshold \in 1..MaxThreshold, recovery_timeout \in RecoveryTimeouts :
          breaker = CircuitBreaker(failure_threshold, recovery_timeout)
    /\ clock = 0
    /\ retry = NoRetry
    /\ ret = Call("__init__", 0, RetNone)
    /\ NoLedger
    /\ NoGraveyard
    /\ trials = <<>>
    /\ standards_history = <<>>
    /\ current_standard = NoFile
    /\ recorded_exp = {}
    /\ NoQualifier

NextBreaker ==
    \/ \E outcome \in FuncOutcomes : call(outcome)
    \/ tick

SpecBreaker == InitBreaker /\ [][NextBreaker]_vars

\* the fallback expo: wait = wait_gen(); wait(n) = min(2 ** n, 60)
expo(n) == IF 2 ^ n < 60 THEN 2 ^ n ELSE 60

\* a call of the wrapper of on_exception(expo, exception, max_tries) around a
\* func that does script[k] at its k-th invocation: the attempt of the loop,
\* the invocations made, the seconds slept, and where the call stands
Wrapped(max_tries, script) ==
    [max_tries |-> max_tries, script |-> script, attempt |-> 1, invocations |-> 0,
     slept |-> 0, at |-> "loop"]

\* wrapper(*args): range(1, max_tries + 1) is entered
wrapper(max_tries, script) ==
    /\ IF retry = NoRetry THEN TRUE ELSE retry.at # "loop"
    /\ retry' = Wrapped(max_tries, script)
    /\ ret' = Call("wrapper", max_tries, RetNone)
    /\ UNCHANGED <<trial_vars, qualifier_vars, threads, ledger_vars, graveyard_vars,
                   breaker, clock>>

\* one more attempt is made at once
Retried_without_limit(r) ==
    [r EXCEPT !.invocations = @ + 1, !.attempt = @ + 1]

\* the except clause (lines 158-166): the last attempt raises, the others sleep
Retried(r) ==
    IF r.attempt = r.max_tries
    THEN [r EXCEPT !.invocations = @ + 1, !.at = "raised"]
    ELSE [r EXCEPT !.invocations = @ + 1, !.slept = @ + expo(r.attempt - 1),
                   !.attempt = @ + 1]

\* one turn of the loop: func is invoked
attempt ==
    /\ retry # NoRetry
    /\ retry.at = "loop"
    /\ retry' = CASE retry.script[retry.invocations + 1] = Returns ->
                        [retry EXCEPT !.invocations = @ + 1, !.at = "returned"]
                  [] retry.script[retry.invocations + 1] = RaisesExpected ->
                        Retried(retry)
                  [] OTHER ->
                        [retry EXCEPT !.invocations = @ + 1, !.at = "raised"]
    /\ ret' = Call("attempt", retry.attempt,
                   IF retry.script[retry.invocations + 1] = Returns THEN RetNone
                   ELSE RetRaise(retry.script[retry.invocations + 1]))
    /\ UNCHANGED <<trial_vars, qualifier_vars, threads, ledger_vars, graveyard_vars,
                   breaker, clock>>

\* what func does at each invocation, for one invocation more than the most tries
Scripts == [1..(MaxTries + 1) -> FuncOutcomes]

InitRetry ==
    /\ breaker = NoBreaker
    /\ clock = 0
    /\ retry = NoRetry
    /\ ret = Call("__init__", 0, RetNone)
    /\ NoLedger
    /\ NoGraveyard
    /\ trials = <<>>
    /\ standards_history = <<>>
    /\ current_standard = NoFile
    /\ recorded_exp = {}
    /\ NoQualifier

NextRetry ==
    \/ \E max_tries \in 1..MaxTries, script \in Scripts : wrapper(max_tries, script)
    \/ attempt

SpecRetry == InitRetry /\ [][NextRetry]_vars

----------------------------------------------------------------------------
(* Properties of the promotion state machine, under Spec *)

\* C1: a trial's status becomes promoted only in a promote_experimental call
\* made while its winner is 'experimental', and its winner is assigned only
\* by evaluate_trial; so it is promoted only after an evaluate_trial call on
\* it recorded the winner 'experimental'.
C1_PromotedOnlyAfterExperimentalWin ==
    [][\A i \in 1..Len(trials) :
          /\ (trials[i].status # PROMOTED /\ trials'[i].status = PROMOTED) =>
                /\ ret'.op = "promote_experimental" /\ ret'.idx = i
                /\ trials[i].winner = "experimental"
                /\ i \in recorded_exp
          /\ trials'[i].winner # trials[i].winner =>
                ret'.op = "evaluate_trial" /\ ret'.idx = i]_vars

\* C1 witness: promote_experimental has just promoted a trial.
C1_Witness ==
    /\ ret.op = "promote_experimental" /\ ret.idx # 0
    /\ trials[ret.idx].status = PROMOTED
    /\ ret.idx \in recorded_exp

\* The edges of the lifecycle planned -> running <-> paused -> completed, with
\* promoted and archived entered from running or completed
LifecycleEdges ==
    {<<PLANNED, RUNNING>>, <<RUNNING, PAUSED>>, <<PAUSED, RUNNING>>,
     <<PAUSED, COMPLETED>>, <<RUNNING, COMPLETED>>,
     <<RUNNING, PROMOTED>>, <<COMPLETED, PROMOTED>>,
     <<RUNNING, ARCHIVED>>, <<COMPLETED, ARCHIVED>>}

\* C2: every change of a trial's status follows an edge of the lifecycle
\* (start only from planned, pause only from running, resume only from
\* paused), and promoted and archived are terminal.
C2_StatusFollowsLifecycle ==
    [][\A i \in 1..Len(trials) :
          trials'[i].status # trials[i].status =>
              <<trials[i].status, trials'[i].status>> \in LifecycleEdges]_vars

\* C3: promote_experimental on a trial whose winner is not 'experimental'
\* changes neither the trial (its status included) nor the standards history
\* nor the stored current standard.
C3_RejectedPromotionIsNoOp ==
    [][(/\ ret'.op = "promote_experimental" /\ ret'.idx # 0
        /\ trials[ret'.idx].winner # "experimental")
          => UNCHANGED <<trials, standards_history, current_standard>>]_vars

\* C3 witness: promote_experimental has just been called on a trial that
\* classic won, and the trial is not promoted.
C3_Witness ==
    /\ ret.op = "promote_experimental" /\ ret.idx # 0
    /\ trials[ret.idx].winner = "classic"
    /\ trials[ret.idx].status # PROMOTED
    /\ standards_history = <<>>

----------------------------------------------------------------------------
(* Properties of evaluate_trial, under SpecEval *)

\* Both branches have reached the trial's min_sample_size
BothReached(t) ==
    /\ t.classic_branch.leads_qualified >= t.min_sample_size
    /\ t.experimental_branch.leads_qualified >= t.min_sample_size

\* x exceeds y by more than 5% relative
ExceedsBy5Percent(x, y) == RLess(RMul(y, R(105, 100)), x)

\* The average of (a) the combined sample over 4 x min_sample_size, capped at
\* 1, and (b) the absolute fitness difference over 0.2, capped at 1
ConfidenceHeuristic(t) ==
    LET a == RMin(R(t.classic_branch.leads_qualified + t.experimental_branch.leads_qualified,
                    4 * t.min_sample_size), ROne)
        b == RMin(RDiv(RAbs(RSub(fitness_score(t.classic_branch),
                                 fitness_score(t.experimental_branch))), R(2, 10)), ROne)
    IN  RDiv(RAdd(a, b), <<2, 1>>)

InUnitInterval(x) == ~RLess(x, RZero) /\ ~RLess(ROne, x)

\* C4: evaluate_trial on a trial with a branch below min_sample_size returns
\* None and leaves winner and confidence as they were; it returns a
\* TrialResult only when both branches have reached min_sample_size, which is
\* exactly when is_ready_for_evaluation is true.
C4_NotReadyIsNoResult ==
    [][(ret'.op = "evaluate_trial" /\ ret'.idx # 0) =>
          LET t == trials[ret'.idx] IN
          /\ ~BothReached(t) =>
                /\ ret'.val.kind = "None"
                /\ trials'[ret'.idx].winner = t.winner
                /\ trials'[ret'.idx].confidence = t.confidence
          /\ ret'.val.kind = "TrialResult" => BothReached(t)
          /\ is_ready_for_evaluation(t) <=> BothReached(t)]_vars

\* C4 witness: evaluate_trial has just returned None for a trial whose
\* classic branch has reached the sample size and whose experimental branch
\* has not.
C4_Witness ==
    /\ ret.op = "evaluate_trial" /\ ret.idx # 0 /\ ret.val.kind = "None"
    /\ trials[ret.idx].classic_branch.leads_qualified >= trials[ret.idx].min_sample_size
    /\ trials[ret.idx].experimental_branch.leads_qualified < trials[ret.idx].min_sample_size
    /\ trials[ret.idx].winner = None

\* C5: after evaluate_trial on a trial past the sample-size gate, the trial's
\* winner is 'experimental' exactly when the experimental fitness exceeds the
\* classic one by more than 5%, 'classic' exactly under the symmetric
\* condition, 'inconclusive' otherwise, and the two conditions exclude each
\* other.
C5_WinnerRule ==
    (ret.op = "evaluate_trial" /\ ret.idx # 0 /\ BothReached(trials[ret.idx])) =>
        LET t == trials[ret.idx]
            cf == fitness_score(t.classic_branch)
            ef == fitness_score(t.experimental_branch)
        IN  /\ t.winner = "experimental" <=> ExceedsBy5Percent(ef, cf)
            /\ t.winner = "classic" <=> ExceedsBy5Percent(cf, ef)
            /\ t.winner = "inconclusive" <=>
                    (~ExceedsBy5Percent(ef, cf) /\ ~ExceedsBy5Percent(cf, ef))
            /\ ~(ExceedsBy5Percent(ef, cf) /\ ExceedsBy5Percent(cf, ef))

\* C6: a TrialResult recommends 'promote' exactly when its winner is
\* 'experimental' and its confidence is above 0.95, 'archive' exactly when
\* its winner is 'classic', and 'continue' in every other case.
C6_RecommendationRule ==
    (ret.op = "evaluate_trial" /\ ret.val.kind = "TrialResult") =>
        LET r == ret.val
            sure == RLess(R(95, 100), r.confidence)
        IN  /\ r.recommendation = "promote" <=> (r.winner = "experimental" /\ sure)
            /\ r.recommendation = "archive" <=> r.winner = "classic"
            /\ r.recommendation = "continue" <=>
                    \/ r.winner = "experimental" /\ ~sure
                    \/ r.winner = "inconclusive"

\* C6 witness: an evaluation has just recommended 'promote'.
C6_Witness ==
    /\ ret.op = "evaluate_trial" /\ ret.val.kind = "TrialResult"
    /\ ret.val.recommendation = "promote"

\* C7 as claimed: the confidence every evaluation records, whatever the
\* winner, is the average of the capped sample part and the capped
\* difference part, and lies in [0,1].
C7_ConfidenceIsHeuristic ==
    (ret.op = "evaluate_trial" /\ ret.val.kind = "TrialResult") =>
        /\ trials[ret.idx].confidence = ConfidenceHeuristic(trials[ret.idx])
        /\ InUnitInterval(trials[ret.idx].confidence)

\* C7 as amended: an evaluation that declares a winner ('experimental' or
\* 'classic') records that average; an inconclusive evaluation records the
\* confidence 0; the recorded confidence is the result's and lies in [0,1].
C7_ConfidenceOfWinnerIsHeuristic ==
    (ret.op = "evaluate_trial" /\ ret.val.kind = "TrialResult") =>
        LET t == trials[ret.idx] IN
        /\ t.confidence = ret.val.confidence
        /\ t.winner \in {"experimental", "classic"} =>
                t.confidence = ConfidenceHeuristic(t)
        /\ t.winner = "inconclusive" => t.confidence = RZero
        /\ InUnitInterval(t.confidence)

\* C7 witness: an evaluation has just declared a winner on a combined sample
\* above 4 x min_sample_size (the cap of the sample part applies).
C7_Witness ==
    /\ ret.op = "evaluate_trial" /\ ret.val.kind = "TrialResult"
    /\ ret.val.winner \in {"experimental", "classic"}
    /\ trials[ret.idx].classic_branch.leads_qualified
         + trials[ret.idx].experimental_branch.leads_qualified
            > 4 * trials[ret.idx].min_sample_size

\* The scenario of C8: classic fitness 0.40, experimental fitness 0.50, both
\* branches past the gate and the combined sample at 4 x min_sample_size or more
C8_Scenario ==
    /\ ret.op = "evaluate_trial" /\ ret.idx # 0
    /\ BothReached(trials[ret.idx])
    /\ fitness_score(trials[ret.idx].classic_branch) = R(40, 100)
    /\ fitness_score(trials[ret.idx].experimental_branch) = R(50, 100)
    /\ trials[ret.idx].classic_branch.leads_qualified
         + trials[ret.idx].experimental_branch.leads_qualified
            >= 4 * trials[ret.idx].min_sample_size

----------------------------------------------------------------------------
(* Properties of promotion and of branch assignment, under Spec *)

\* The standard in force: what current_standard.json holds, the default
\* standard where there is no such file
StandardInForce ==
    IF current_standard = NoFile THEN DefaultStandard ELSE current_standard[1]

\* C9: promote_experimental on a trial whose winner is 'experimental' makes
\* that trial's experimental configuration the current standard, appends
\* exactly one history entry, which holds the standard in force right before
\* the call, and sets the trial's status to promoted; a trial created after a
\* promotion gets the configuration promoted last as its classic
\* configuration.
C9_PromotionSwapsStandard ==
    [][/\ (/\ ret'.op = "promote_experimental" /\ ret'.idx # 0
           /\ trials[ret'.idx].winner = "experimental") =>
              /\ StandardInForce' = trials[ret'.idx].experimental_branch.config
              /\ Len(standards_history') = Len(standards_history) + 1
              /\ SubSeq(standards_history', 1, Len(standards_history)) = standards_history
              /\ standards_history'[Len(standards_history')].config = StandardInForce
              /\ trials'[ret'.idx].status = PROMOTED
       /\ (ret'.op = "create_trial" /\ standards_history # <<>>) =>
              LET last == standards_history[Len(standards_history)]
                  promoted == trials[_get_trial(last.trial_id)]
              IN  trials'[Len(trials')].classic_branch.config
                      = promoted.experimental_branch.config]_vars

\* C9 witness: a trial has just been created after a promotion, with the
\* promoted configuration as its classic configuration.
C9_Witness ==
    /\ ret.op = "create_trial"
    /\ standards_history # <<>>
    /\ trials[1].status = PROMOTED
    /\ trials[ret.idx].classic_branch.config = trials[1].experimental_branch.config
    /\ trials[ret.idx].classic_branch.config # DefaultStandard

\* C10: assign_branch returns 'classic' whenever the trial is not running,
\* returns 'experimental' or 'classic' while it is running, and changes no
\* field of any trial (nor the history, nor the stored standard).
C10_AssignBranchIsStateless ==
    [][ret'.op = "assign_branch" =>
          /\ UNCHANGED <<trials, standards_history, current_standard>>
          /\ trials[ret'.idx].status # RUNNING => ret'.val = RetStr("classic")
          /\ ret'.val.kind = "str"
          /\ ret'.val.value \in {"experimental", "classic"}]_vars

\* C10 witness: assign_branch has just returned 'classic' for a paused trial
\* whose traffic split is above 0.
C10_Witness ==
    /\ ret.op = "assign_branch"
    /\ trials[ret.idx].status = PAUSED
    /\ trials[ret.idx].traffic_split > 0
    /\ ret.val = RetStr("classic")

----------------------------------------------------------------------------
(* Properties of the perception lens, under SpecLens *)

IsReading == ret.op = "perceive" /\ ret.val.kind = "LeadCoherence"

Tiers == {"hot", "warm", "cold", "disqualified"}

BelowFitFloor(r) == RLess(r.f_fit, R(1, 5))
BelowAuthorityFloor(r) == RLess(r.rho_authority, R(3, 20))

MeetsHot(r) ==
    /\ RGeq(r.coherence_score, R(5, 2))
    /\ RGeq(r.rho_authority, authority_threshold)
    /\ RGeq(r.q_urgency, R(3, 10))

\* C11: the tier of every reading is the first match of: fit < 0.2 ->
\* disqualified; authority < 0.15 -> disqualified; coherence >= 2.5 and
\* authority >= the calibration's threshold and urgency >= 0.3 -> hot;
\* coherence >= 1.5 -> warm; otherwise cold.  Every reading has one of the
\* four tiers, and fit < 0.2 is disqualified whatever the other dimensions.
C11_TierByFirstMatch ==
    IsReading =>
        LET r == ret.val
            tier == r.qualification_tier
            floor == BelowFitFloor(r) \/ BelowAuthorityFloor(r)
        IN  /\ tier \in Tiers
            /\ BelowFitFloor(r) => tier = "disqualified"
            /\ BelowAuthorityFloor(r) => tier = "disqualified"
            /\ ~floor /\ MeetsHot(r) => tier = "hot"
            /\ ~floor /\ ~MeetsHot(r) /\ RGeq(r.coherence_score, R(3, 2)) => tier = "warm"
            /\ ~floor /\ ~MeetsHot(r) /\ RLess(r.coherence_score, R(3, 2)) => tier = "cold"

\* a reading below the fit floor that meets every condition of hot
C11_Witness ==
    /\ IsReading
    /\ BelowFitFloor(ret.val)
    /\ MeetsHot(ret.val)
    /\ ret.val.qualification_tier = "disqualified"

ScenarioLead ==
    [LeadData("lead") EXCEPT
        !.source = "referral", !.pain_points = ExamplePainPoints,
        !.is_decision_maker = True, !.budget_mentioned = True,
        !.timeline_mentioned = "this_quarter", !.meeting_requests = 2]

C12_Scenario ==
    /\ lens_name = "enterprise_saas"
    /\ lead = <<ScenarioLead>>
    /\ ret.op = "perceive"

HasSignal(signals, signal) == \E k \in 1..Len(signals) : signals[k] = signal

\* C12 as stated: the record with source referral, 3 pain points,
\* decision-maker, budget mentioned, timeline this_quarter and 2 meeting
\* requests, perceived under enterprise_saas, is hot and has the positive
\* signal 'Decision-making authority'.
C12_ScenarioIsHot ==
    C12_Scenario =>
        /\ ret.val.kind = "LeadCoherence"
        /\ ret.val.qualification_tier = "hot"
        /\ HasSignal(ret.val.positive_signals, "Decision-making authority")

\* C12 amended: that record's coherence stays below 2.5, so that it is warm;
\* it has the positive signal 'Decision-making authority'.
C12_ScenarioIsWarm ==
    C12_Scenario =>
        /\ ret.val.kind = "LeadCoherence"
        /\ RLess(ret.val.coherence_score, R(5, 2))
        /\ ret.val.qualification_tier = "warm"
        /\ HasSignal(ret.val.positive_signals, "Decision-making authority")

C12_Witness == C12_Scenario /\ ret.val.kind = "LeadCoherence"

\* C13: in every reading, fit < 0.2 comes with the 'Poor ICP fit'
\* disqualifier, and the disqualifier list is non-empty exactly when the
\* tier is disqualified.
C13_DisqualifiersMirrorFloors ==
    IsReading =>
        /\ BelowFitFloor(ret.val) => HasSignal(ret.val.disqualifiers, "Poor ICP fit")
        /\ ret.val.disqualifiers # <<>> <=> ret.val.qualification_tier = "disqualified"

InUnit(x) == RGeq(x, RZero) /\ RGeq(ROne, x)

\* C14: every reading of a well-formed record, under each of the four
\* calibrations and the default one, has intent, authority, urgency and fit
\* in [0,1], coherence in [0,4] and confidence in [0,1].
C14_ReadingInRange ==
    ret.op = "perceive" /\ WellFormed(lead[1]) =>
        /\ ret.val.kind = "LeadCoherence"
        /\ InUnit(ret.val.psi_intent)
        /\ InUnit(ret.val.rho_authority)
        /\ InUnit(ret.val.q_urgency)
        /\ InUnit(ret.val.f_fit)
        /\ RGeq(ret.val.coherence_score, RZero) /\ RGeq(R(4, 1), ret.val.coherence_score)
        /\ InUnit(ret.val.confidence)

\* a reading whose weighted sum exceeds 4.0 and whose intent sum exceeds 1
C14_Witness ==
    /\ IsReading
    /\ lead = <<FullLead>>
    /\ RLess(R(4, 1), _calculate_coherence_unclamped(ret.val.psi_intent, ret.val.rho_authority,
                                                      ret.val.q_urgency, ret.val.f_fit))
    /\ ret.val.coherence_score = R(4, 1)
    /\ ret.val.psi_intent = ROne

----------------------------------------------------------------------------
(* Properties of the urgency transform, under SpecUrgency *)

IsTransform(r) == r.op = "biological_optimization"

\* the raw value at which raw / (0.2 + raw + raw^2/0.8) is greatest:
\* the square root of 0.2 x 0.8
Peak == R(2, 5)

\* C15: the urgency transform q(raw) = raw / (0.2 + raw + raw^2/0.8) maps
\* every raw <= 0 to 0, is non-negative on [0,4], and is not monotonic: of
\* two raw values up to the maximum the larger has the larger score, of two
\* raw values from the maximum on the larger has the smaller score.
C15_TransformRisesThenFalls ==
    [][/\ IsTransform(ret') =>
            LET raw == ret'.val.q_raw
                q == ret'.val.value
            IN  /\ RGeq(q, RZero)
                /\ RGeq(RZero, raw) => q = RZero
                /\ RLess(RZero, raw) =>
                      RMul(q, RAdd(RAdd(R(1, 5), raw), RDiv(RMul(raw, raw), R(4, 5)))) = raw
       /\ IsTransform(ret) /\ IsTransform(ret') /\ RLess(ret.val.q_raw, ret'.val.q_raw) =>
            /\ RGeq(ret.val.q_raw, RZero) /\ RGeq(Peak, ret'.val.q_raw) =>
                  RLess(ret.val.value, ret'.val.value)
            /\ RGeq(ret.val.q_raw, Peak) =>
                  RLess(ret'.val.value, ret.val.value)]_vars

\* the largest raw value scores below the raw value 0.5, itself past the maximum
C15_Witness ==
    /\ IsTransform(ret)
    /\ ret.val.q_raw = R(4, 1)
    /\ RLess(RZero, ret.val.value)
    /\ RLess(ret.val.value, biological_optimization(R(1, 2)))
    /\ RLess(biological_optimization(R(1, 2)), biological_optimization(Peak))

----------------------------------------------------------------------------
(* Properties of the qualifier, under SpecQualifier *)

\* the QualificationResults the last call returned
Returned ==
    IF ret.op = "qualify" /\ ret.val.kind = "QualificationResult" THEN {ret.val}
    ELSE IF ret.op = "qualify_batch" /\ ret.val.kind = "list" THEN SeqRange(ret.val.value)
    ELSE {}

Accepted(leads) == {k \in 1..Len(leads) : WellFormed(leads[k])}

\* C17: qualify_batch returns exactly the results of the input records whose
\* qualification did not raise, ordered by non-increasing priority; a record
\* whose qualification raises is skipped and the records after it are
\* qualified.
C17_BatchReturnsSortedResults ==
    ret.op = "qualify_batch" =>
        /\ ret.val.kind = "list"
        /\ LET results == ret.val.value
               leads == ret.idx
           IN  /\ \A k \in 1..(Len(results) - 1) :
                     RGeq(results[k].priority_score, results[k + 1].priority_score)
               /\ \E pos \in [1..Len(results) -> Accepted(leads)] :
                     /\ \A j, k \in 1..Len(results) : j # k => pos[j] # pos[k]
                     /\ \A k \in Accepted(leads) : \E j \in 1..Len(results) : pos[j] = k
                     /\ \A j \in 1..Len(results) :
                           results[j] = QualificationResult(leads[pos[j]], Reading(leads[pos[j]]))

TierCounters == {"hot", "warm", "cold", "disqualified"}

CountOfTier(results, tier) == Cardinality({k \in 1..Len(results) : results[k].qualification_tier = tier})

\* what the last call added to the log: its results, in the order qualified
Successes(r) ==
    IF r.op = "qualify" THEN (IF r.val.kind = "QualificationResult" THEN <<r.val>> ELSE <<>>)
    ELSE IF r.op = "qualify_batch"
         THEN SelectSeq([k \in 1..Len(r.idx) |-> Reading(r.idx[k])],
                        LAMBDA c : c.kind = "LeadCoherence")
    ELSE <<>>

\* C18: total_qualified = hot + warm + cold + disqualified = the number of
\* log entries after any sequence of qualify and qualify_batch calls; each
\* successful qualification adds one to total_qualified and one to the
\* counter of its tier, and changes no other counter.
C18_StatsCountQualifications ==
    /\ [](/\ stats.total_qualified = stats.hot + stats.warm + stats.cold + stats.disqualified
          /\ stats.total_qualified = Len(qualification_log))
    /\ [][LET done == Successes(ret') IN
            /\ stats'.total_qualified = stats.total_qualified + Len(done)
            /\ \A tier \in TierCounters :
                  stats'[tier] = stats[tier] + CountOfTier(done, tier)
            /\ Len(qualification_log') = Len(qualification_log) + Len(done)]_vars

\* a qualify call filled the log, hot and disqualified results among those counted
C18_Witness ==
    /\ ret.op = "qualify"
    /\ ret.val.kind = "QualificationResult"
    /\ stats.total_qualified = MaxLog
    /\ stats.hot > 0
    /\ stats.disqualified > 0

----------------------------------------------------------------------------
(* Properties of concurrent callers, under SpecThreads *)

RECURSIVE AmountsFor(_, _, _)
AmountsFor(made, object, counter) ==
    IF made = <<>> THEN 0
    ELSE (IF made[1].object = object /\ made[1].counter = counter THEN made[1].amount ELSE 0)
         + AmountsFor(Tail(made), object, counter)

RECURSIVE SumOfThreads(_, _, _)
SumOfThreads(t, object, counter) ==
    IF t = 0 THEN 0
    ELSE AmountsFor(threads[t].made, object, counter) + SumOfThreads(t - 1, object, counter)

Counted ==
    {Increment("stats", c, 0) : c \in DOMAIN NoStats}
        \cup {Increment(b, c, 0) :
                b \in {"classic_branch", "experimental_branch"},
                c \in {"leads_qualified", "leads_hot", "leads_disqualified",
                       "outcomes_won", "outcomes_lost", "total_revenue", "total_cost"}}

\* C19: when concurrent callers of record_qualification / record_outcome on
\* one trial, or of qualify on one LeadQualifier, have all completed, each
\* counter has grown by exactly the increments of the calls that incremented
\* it: no update is lost.
C19_NoLostUpdate ==
    (threads # NoThreads /\ \A t \in DOMAIN threads : threads[t].done) =>
        \A c \in Counted : Counter(c) = SumOfThreads(Len(threads), c.object, c.counter)

----------------------------------------------------------------------------
(* Properties of the stored records, under SpecLedger *)

SameFinancials(a, b) ==
    /\ a.deal_value = b.deal_value
    /\ a.expected_value = b.expected_value
    /\ a.cost_to_acquire = b.cost_to_acquire

\* the storage holds the serialization of this outcome, or of this nutrient
OutcomeStored(o) == OutcomeFile(o) \in outcome_files
NutrientStored(n) == NutrientFile(n) \in nutrient_files

\* C20: an Outcome or a Nutrient serialized with to_dict and reconstructed
\* by the loader has the original's financial fields (deal value, expected
\* value, acquisition cost) and, for a Nutrient, its category and severity.
C20_RoundTripKeepsFields ==
    [][/\ ret'.op = "_load_outcomes" =>
            \A k \in 1..Len(outcomes) :
                OutcomeStored(outcomes[k]) =>
                    \E j \in 1..Len(outcomes') :
                        /\ outcomes'[j].lead_id = outcomes[k].lead_id
                        /\ outcomes'[j].outcome_type = outcomes[k].outcome_type
                        /\ SameFinancials(outcomes'[j], outcomes[k])
       /\ ret'.op = "_load_graveyard" =>
            \A k \in 1..Len(nutrients) :
                NutrientStored(nutrients[k]) =>
                    \E j \in 1..Len(nutrients') :
                        /\ nutrients'[j].lead_id = nutrients[k].lead_id
                        /\ nutrients'[j].lesson = nutrients[k].lesson
                        /\ nutrients'[j].category = nutrients[k].category
                        /\ nutrients'[j].severity = nutrients[k].severity]_vars

----------------------------------------------------------------------------
(* Properties of the graveyard, under SpecGraveyard *)

\* a step of bury_lead: the outcome buried is ret'.idx
IsBurial == graveyard_leads' # graveyard_leads

InferringKinds == {"lost_competitor", LOST_DARK, "disqualified"}

\* the category of the nutrient inferred from the kind of an outcome
InferredCategory(outcome) ==
    CASE outcome.outcome_type = "lost_competitor" -> "competitive"
      [] outcome.outcome_type = LOST_DARK -> "engagement"
      [] outcome.outcome_type = "disqualified" -> "qualification"
      [] OTHER -> "none"

NumberLearnt(outcome) ==
    Len(outcome.learnings.what_went_wrong)
        + (IF outcome.learnings.lesson_learned # <<>> THEN 1 ELSE 0)

\* the issues, then the lesson, then the inferred nutrient if there is one
NutrientsAsLearnt(list, outcome, inferred) ==
    /\ Len(list) = NumberLearnt(outcome) + (IF inferred THEN 1 ELSE 0)
    /\ \A k \in 1..Len(outcome.learnings.what_went_wrong) :
          list[k].lesson = outcome.learnings.what_went_wrong[k]
    /\ outcome.learnings.lesson_learned # <<>> =>
          /\ list[NumberLearnt(outcome)].lesson = outcome.learnings.lesson_learned[1]
          /\ list[NumberLearnt(outcome)].severity = "moderate"
    /\ inferred => list[Len(list)].category = InferredCategory(outcome)

Infers(outcome) ==
    /\ outcome.outcome_type \in InferringKinds
    /\ outcome.outcome_type = "lost_competitor" => outcome.competitor_chosen # <<>>

IsAnalysis == ret.op = "analyze_patterns" /\ ret.val.kind = "list"

QualificationTiers == {"hot", "warm", "cold", "disqualified"}

WentDark == SelectSeq(graveyard_leads, LAMBDA o : o.outcome_type = LOST_DARK)

WentDarkAt(tier) == SelectSeq(WentDark, LAMBDA o : o.qualification_tier = <<tier>>)

GoingDark(tier) ==
    {k \in DOMAIN patterns : patterns[k].pattern_type = tier \o "_tier_going_dark"}

\* the pattern of a tier counts the tier's went-dark outcomes and lists their leads
GoingDarkDescribes(tier) ==
    \A k \in GoingDark(tier) :
        /\ patterns[k].frequency = Len(WentDarkAt(tier))
        /\ patterns[k].affected_leads = LeadIdsOf(WentDarkAt(tier))

\* C22 as stated: analyze_patterns reports a '<tier> going dark' pattern for a
\* tier exactly when the tier has at least 2 went-dark outcomes and the buried
\* outcomes number at least 3; its frequency is the tier's went-dark count and
\* its affected leads are those outcomes' lead ids.
C22_DarkPatternAmongBuried ==
    IsAnalysis =>
        \A tier \in QualificationTiers :
            /\ GoingDark(tier) # {} <=>
                  Len(WentDarkAt(tier)) >= 2 /\ Len(graveyard_leads) >= 3
            /\ GoingDarkDescribes(tier)

\* C22 amended: analyze_patterns reports a '<tier> going dark' pattern for a
\* tier exactly when the tier has at least 2 went-dark outcomes and the
\* went-dark outcomes of all tiers number at least 3; its frequency is the
\* tier's went-dark count and its affected leads are those outcomes' lead ids.
C22_DarkPatternAmongDark ==
    IsAnalysis =>
        \A tier \in QualificationTiers :
            /\ GoingDark(tier) # {} <=>
                  Len(WentDarkAt(tier)) >= 2 /\ Len(WentDark) >= 3
            /\ GoingDarkDescribes(tier)

\* three leads went dark, two of them hot: the hot tier is reported, the warm is not
C22_Witness ==
    /\ IsAnalysis
    /\ Len(WentDark) = 3
    /\ Len(WentDarkAt("hot")) = 2
    /\ GoingDark("hot") # {}
    /\ GoingDark("warm") = {}

\* C29: bury_lead is all-or-nothing on the graveyard's lists: a call whose
\* nutrient extraction raises changes neither the buried leads nor the
\* nutrients, so that every buried lead has had its nutrients extracted.
C29_BuryIsAllOrNothing ==
    /\ [](\A k \in DOMAIN graveyard_leads :
             _extract_nutrients(graveyard_leads[k]).kind = "list")
    /\ [][ret'.op = "bury_lead" /\ ret'.val.kind = "raise" =>
             UNCHANGED <<graveyard_leads, nutrients>>]_vars

----------------------------------------------------------------------------
(* Properties of the circuit breaker, under SpecBreaker *)

\* a step that is not a stutter and leaves the clock is a call through the breaker
IsBreakerCall == clock' = clock

\* seconds since the last failure
Elapsed == clock - breaker.last_failure_time[1]

Recovering == breaker.state = OPEN /\ Elapsed >= breaker.recovery_timeout

\* C23: a CircuitBreaker starts CLOSED and becomes OPEN when its failure count
\* reaches failure_threshold; while it is OPEN and less than recovery_timeout
\* has elapsed since the last failure every call is rejected and the function
\* is not invoked; the first call after the timeout invokes the function,
\* closes the circuit with the count reset to 0 if the function returns and
\* re-opens it if the function raises the expected exception.
C23_CircuitOpensAndRecovers ==
    /\ [](ret.op = "__init__" => breaker.state = CLOSED /\ breaker.failure_count = 0)
    /\ [][/\ breaker.state = CLOSED =>
                breaker'.state = IF breaker'.failure_count >= breaker.failure_threshold
                                 THEN OPEN ELSE CLOSED
          /\ IsBreakerCall /\ breaker.state = OPEN /\ ~Recovering =>
                /\ ~ret'.val.invoked
                /\ ret'.val.result.kind = "raise"
                /\ breaker' = breaker
          /\ IsBreakerCall /\ Recovering =>
                /\ ret'.val.invoked
                /\ ret'.idx = Returns =>
                      breaker'.state = CLOSED /\ breaker'.failure_count = 0
                /\ ret'.idx = RaisesExpected => breaker'.state = OPEN]_vars

\* the circuit has opened and a call after the timeout has closed it again
C23_Witness ==
    /\ breaker # NoBreaker
    /\ ret.op = "call"
    /\ ret.idx = Returns
    /\ ret.val.invoked
    /\ breaker.state = CLOSED
    /\ breaker.failure_count = 0
    /\ breaker.last_failure_time # <<>>

\* C30: a successful call through a CLOSED breaker leaves the failure count
\* unchanged, and the count goes back to 0 only by a successful call that finds
\* the circuit half open; in every state CLOSED implies failure count <
\* failure_threshold and OPEN implies failure count >= failure_threshold.
C30_SuccessKeepsCount ==
    /\ [](/\ breaker.state = CLOSED => breaker.failure_count < breaker.failure_threshold
          /\ breaker.state = OPEN => breaker.failure_count >= breaker.failure_threshold)
    /\ [][/\ IsBreakerCall /\ breaker.state = CLOSED /\ ret'.idx = Returns =>
                breaker' = breaker
          /\ breaker'.failure_count < breaker.failure_count =>
                /\ breaker'.failure_count = 0
                /\ breaker'.state = CLOSED
                /\ breaker.state = HALF_OPEN \/ Recovering
                /\ ret'.idx = Returns]_vars

\* a call has succeeded through the closed circuit and the failures before it
\* are still counted
C30_Witness ==
    /\ breaker # NoBreaker
    /\ ret.op = "call"
    /\ ret.idx = Returns
    /\ breaker.state = CLOSED
    /\ breaker.failure_count > 0
    /\ breaker.failure_count = breaker.failure_threshold - 1

----------------------------------------------------------------------------
(* Properties of the retry wrapper, under SpecRetry *)

Finished == retry.at # "loop"

\* the invocation at which func first returns, 0 if none of the script
FirstReturn(script) ==
    IF \E k \in DOMAIN script : script[k] = Returns
    THEN CHOOSE k \in DOMAIN script :
            script[k] = Returns /\ \A j \in 1..(k - 1) : script[j] # Returns
    ELSE 0

WatchedBefore(script, k) == \A j \in 1..(k - 1) : script[j] = RaisesExpected

\* C24: a function wrapped by the fallback on_exception with max_tries = n is
\* invoked at most n times per call; the wrapper returns the result of the
\* first invocation that does not raise (a function that first succeeds at its
\* k-th invocation, k <= n, after raising the watched exception before, is
\* invoked exactly k times), and if all n invocations raise the watched
\* exception the last one propagates to the caller.
C24_AtMostMaxTries ==
    retry # NoRetry =>
        /\ retry.invocations <= retry.max_tries
        /\ retry.at = "returned" =>
              /\ retry.invocations = FirstReturn(retry.script)
              /\ ret.val = RetNone
        /\ /\ Finished
           /\ FirstReturn(retry.script) \in 1..retry.max_tries
           /\ WatchedBefore(retry.script, FirstReturn(retry.script))
           => retry.at = "returned" /\ retry.invocations = FirstReturn(retry.script)
        /\ Finished /\ WatchedBefore(retry.script, retry.max_tries + 1) =>
              /\ retry.at = "raised"
              /\ retry.invocations = retry.max_tries
              /\ ret.val = RetRaise(RaisesExpected)

\* func raised the watched exception twice and returned at the third of three tries
C24_Witness ==
    /\ retry # NoRetry
    /\ retry.at = "returned"
    /\ retry.max_tries = 3
    /\ retry.invocations = 3
    /\ retry.slept = 3

----------------------------------------------------------------------------
(* The order of tiers in a batch, under SpecPriority *)

TierRank(tier) ==
    CASE tier = "hot" -> 1
      [] tier = "warm" -> 2
      [] tier = "cold" -> 3
      [] tier = "disqualified" -> 4

\* C26: in the list qualify_batch returns no result of a lower tier comes
\* before a result of a higher tier (hot, warm, cold, disqualified in that
\* order), and a result of a higher tier has a strictly greater priority
\* than a result of a lower tier: the priority ranges of the tiers do not
\* overlap.
C26_TiersInOrder ==
    (ret.op = "qualify_batch" /\ ret.val.kind = "list") =>
        LET results == ret.val.value
        IN  \A j, k \in 1..Len(results) :
                /\ j < k => TierRank(results[j].qualification_tier)
                                <= TierRank(results[k].qualification_tier)
                /\ TierRank(results[j].qualification_tier)
                      < TierRank(results[k].qualification_tier)
                   => RLess(results[k].priority_score, results[j].priority_score)

\* a batch of a cold record followed by a warm one came back with the warm
\* result first, although the cold reading has the greater urgency and the
\* greater authority
C26_Witness ==
    /\ ret.op = "qualify_batch" /\ ret.val.kind = "list"
    /\ Len(ret.val.value) = 2
    /\ ret.val.value[1] = QualificationResult(ret.idx[2], Reading(ret.idx[2]))
    /\ ret.val.value[1].qualification_tier = "warm"
    /\ ret.val.value[2].qualification_tier = "cold"
    /\ RLess(ret.val.value[1].coherence.q_urgency, ret.val.value[2].coherence.q_urgency)
    /\ RLess(ret.val.value[1].coherence.rho_authority,
             ret.val.value[2].coherence.rho_authority)

----------------------------------------------------------------------------
(* The ceiling of the urgency score, under SpecLens *)

\* C28: the urgency score of every reading perceive returns is at most 1/2;
\* no reading carries the warning 'High urgency + low authority - may be
\* researcher' and no hot reading carries the action 'Offer accelerated
\* timeline'.
C28_UrgencyNeverHigh ==
    IsReading =>
        /\ ~RLess(R(1, 2), ret.val.q_urgency)
        /\ "High urgency + low authority - may be researcher"
              \notin SeqRange(ret.val.warning_signals)
        /\ ret.val.qualification_tier = "hot"
              => "Offer accelerated timeline" \notin SeqRange(ret.val.next_actions)

\* a hot reading whose urgency is the highest there is, 1/2, is told to
\* schedule a meeting and no more than to confirm the budget
C28_Witness ==
    /\ IsReading
    /\ ret.val.q_urgency = R(1, 2)
    /\ ret.val.qualification_tier = "hot"
    /\ ret.val.next_actions
          = <<"Schedule demo/meeting ASAP", "Confirm budget in first call">>

----------------------------------------------------------------------------
(* Evaluation past the gate, under SpecEval *)

\* C25: evaluate_trial on a trial past the sample-size gate returns a
\* TrialResult, whatever the counters of its branches, and the trial holds
\* the winner and the confidence of that result.
C25_EvaluationAlwaysReturns ==
    (ret.op = "evaluate_trial" /\ ret.idx # 0 /\ BothReached(trials[ret.idx])) =>
        /\ ret.val.kind = "TrialResult"
        /\ trials[ret.idx].winner = ret.val.winner
        /\ trials[ret.idx].confidence = ret.val.confidence

----------------------------------------------------------------------------
(* The winner of a promoted trial, under SpecRecording *)

\* C27: in every reachable state a trial whose status is promoted has the
\* winner 'experimental'.
C27_PromotedHasExperimentalWinner ==
    \A i \in 1..Len(trials) :
        trials[i].status = PROMOTED => trials[i].winner = "experimental"

====
